---- MODULE Spec2Model ----
(***************************************************************************)
(* Model of the knowledge ingestion, retrieval and memory engine of the    *)
(* avatar platform: the agent tool-calling state machine (runAgent), the   *)
(* in-process knowledge store (repositories-lite), the ingestion service   *)
(* and the in-process vector store adapter.                                *)
(***************************************************************************)
EXTENDS Integers, Sequences, FiniteSets, TLC

VARIABLES
    tasks,            \* LiteState.tasks: the task records, in insertion order
    agent,            \* the last runAgent invocation: its input, plan and what it returned
    backend,          \* the runtime of the deployment: "lite" (in-process) or "pg" (PostgreSQL)
    knowledgeItems,   \* the knowledge items, in insertion order; an item's id is its position
    knowledgeChunks,  \* the knowledge chunks, in insertion order; a chunk's id is its position
    search,           \* the last similaritySearch call and what it returned
    lastCall,         \* the last store operation called, its arguments and what it returned
    calls,            \* the number of store operations called directly so far
    storage,          \* the objects the storage adapter holds
    jobs,             \* the ingestion jobs the queue holds (delivered at least once)
    procs,            \* the ingestions in flight, one record per worker
    lastDelivery,     \* the ingestion that completed last and what it did
    tomb,             \* the items whose owner deleted them, with the content they had then
    memories,         \* the memories, in insertion order; a memory's id is its position
    messages,         \* the messages of the conversation, in insertion order
    reflection,       \* the last runMemoryReflection call, what it returned and whom it called
    retry,            \* the retryAsync call in progress: its options, its loop and its outcome
    wrapped,          \* the last wrapUntrustedContent call and its output
    sync,             \* the syncConnection call in progress: the connector's documents and its position
    stream,           \* the streaming answer of a chat request: its position, its events and its controller
    chunker,          \* the chunkText call in progress: the words of its section, its window and its chunks
    twin,             \* the lite store and the PostgreSQL store after the same calls, and what the last call returned
    chat,             \* the conversation of the chat route: how many messages it has and what the last turn's reflection check did
    connection        \* the owner's github connection: whether its row exists

agentVars == <<tasks, agent>>
apiVars == <<backend, knowledgeItems, knowledgeChunks, search, lastCall, calls>>
ingestVars == <<storage, jobs, procs, lastDelivery, tomb>>
knowledgeVars == <<backend, knowledgeItems, knowledgeChunks, search, lastCall, calls,
                   storage, jobs, procs, lastDelivery, tomb>>
utilVars == <<retry, wrapped, sync, stream, chunker, twin, chat, connection>>
exceptConnection == <<retry, wrapped, sync, stream, chunker, twin, chat>>
exceptChat == <<retry, wrapped, sync, stream, chunker, twin, connection>>
exceptTwin == <<retry, wrapped, sync, stream, chunker, chat, connection>>
exceptChunker == <<retry, wrapped, sync, stream, twin, chat, connection>>
exceptStream == <<retry, wrapped, sync, chunker, twin, chat, connection>>
exceptSync == <<retry, wrapped, stream, chunker, twin, chat, connection>>
exceptRetry == <<wrapped, sync, stream, chunker, twin, chat, connection>>
exceptWrapped == <<retry, sync, stream, chunker, twin, chat, connection>>
storeVars == <<knowledgeVars, utilVars>>
memoryVars == <<memories, messages, reflection>>
restVars == <<tasks, agent, memories, messages, reflection, utilVars>>
vars == <<tasks, agent, backend, knowledgeItems, knowledgeChunks, search, lastCall,
          calls, storage, jobs, procs, lastDelivery, tomb, memories, messages, reflection,
          retry, wrapped, sync, stream, chunker, twin, chat, connection>>

(***************************************************************************)
(* Bounds of the model.                                                    *)
(***************************************************************************)
MaxTurns == 2       \* runAgent invocations in one behaviour
MaxConfirmed == 1   \* largest confirmedActions array the caller supplies
MaxItems == 2       \* knowledge items a behaviour creates
MaxK == 2           \* largest k a similaritySearch asks for
MaxProcs == 1       \* ingestions in flight at once among the uploads and deletions
MaxRacers == 2      \* ingestions of one document in flight at once
MaxApiCalls == 4    \* store operations called directly in one behaviour
MaxMemories == 2    \* memories a behaviour creates
MaxMessages == 2    \* messages a behaviour adds to the conversation
MaxAttempts == 3    \* largest options.attempts a retryAsync call is given
MaxContentLen == 4  \* tokens of the longest content wrapUntrustedContent is given
MaxChatMessages == 104   \* messages of the longest conversation of the chat route
MaxBacklog == 1          \* reflection jobs waiting in the queue at once
MaxWords == 4            \* words of the longest section chunkText is called on
MaxChunkSizeTokens == 4  \* largest chunkSizeTokens of a chunkText call
MaxOverlapTokens == 5    \* largest overlapTokens of a chunkText call
DocChunkSizeTokens == 3   \* chunkSizeTokens of ingestNormalizedDocument, scaled to the texts
DocOverlapTokens == 1     \* overlapTokens of ingestNormalizedDocument, scaled to the texts
FileChunkSizeTokens == 3  \* chunkSizeTokens of ingestFile, scaled to the texts
FileOverlapTokens == 1    \* overlapTokens of ingestFile, scaled to the texts

Users == {"u1", "u2"}
Backends == {"lite", "pg"}

\* every runAgent invocation of a behaviour is for the same request of this owner
AgentUser == "u1"

Null == "<null>"

(***************************************************************************)
(* Small helpers over sequences.                                           *)
(***************************************************************************)
Range(s) == {s[i] : i \in 1..Len(s)}

RECURSIVE SeqsUpTo(_, _)
SeqsUpTo(S, n) ==
    IF n = 0 THEN {<<>>}
    ELSE LET shorter == SeqsUpTo(S, n - 1)
         IN  shorter \cup {Append(s, x) : s \in {t \in shorter : Len(t) = n - 1}, x \in S}

(***************************************************************************)
(* Texts are sequences of words.  The documents and files of the model.   *)
(***************************************************************************)
T1 == <<"a", "b", "c">>
T2 == <<"c", "d">>
NullText == <<"<null>">>
Vocabulary == <<"a", "b", "c", "d">>

Max(a, b) == IF a >= b THEN a ELSE b
Min(S) == CHOOSE x \in S : \A y \in S : x <= y

\* sha256Hex: a digest that tells any two inputs of the model apart
sha256Hex(input) == <<"sha256">> \o input

\* a record's metadata is a set of <<key, value>> properties; metadata[key] ?? ""
MetaGet(metadata, key) ==
    IF \E p \in metadata : p[1] = key
    THEN (CHOOSE p \in metadata : p[1] = key)[2]
    ELSE ""

(***************************************************************************)
(* chunkText on a text of one section.                                     *)
(***************************************************************************)
\* Math.ceil(wordCount * 1.3)
estimateTokenCount(words) == (13 * Len(words) + 9) \div 10

\* the inner while loop: the index after the last selected word (0-based idx)
RECURSIVE WindowEnd(_, _, _, _)
WindowEnd(words, idx, tokenBudget, chunkSizeTokens) ==
    IF idx < Len(words) /\ tokenBudget < chunkSizeTokens
    THEN WindowEnd(words, idx + 1,
                   tokenBudget + estimateTokenCount(<<words[idx + 1]>>), chunkSizeTokens)
    ELSE idx

\* the outer while loop from window start `start` (0-based)
RECURSIVE ChunksFrom(_, _, _, _, _)
ChunksFrom(words, start, metadata, chunkSizeTokens, overlapTokens) ==
    IF start >= Len(words) THEN <<>>
    ELSE LET idx == WindowEnd(words, start, 0, chunkSizeTokens)
             selected == SubSeq(words, start + 1, idx)
             overlapWordCount == Max(1, (10 * overlapTokens) \div 13)
         IN  IF selected = <<>> THEN <<>>
             ELSE << [ text |-> selected,
                       tokenCount |-> estimateTokenCount(selected),
                       metadata |-> metadata,
                       contentHash |-> sha256Hex(selected) ] >>
                  \o (IF idx >= Len(words) THEN <<>>
                      ELSE ChunksFrom(words, Max(start + 1, idx - overlapWordCount),
                                      metadata, chunkSizeTokens, overlapTokens))

chunkText(text, metadata, chunkSizeTokens, overlapTokens) ==
    ChunksFrom(text, 0, metadata, chunkSizeTokens, overlapTokens)

(***************************************************************************)
(* chunkText, one iteration of its outer loop at a time, for any window    *)
(* size and any overlap.                                                   *)
(***************************************************************************)
\* the words of a section: section.content.split(/\s+/).filter(Boolean)
WordLists == {[i \in 1..n |-> "w"] : n \in 0..MaxWords}
ChunkSizes == (-1)..MaxChunkSizeTokens
Overlaps == (-1)..MaxOverlapTokens

\* the next window start without the step forward
NextStartByOverlap(start, idx, overlapTokens) ==
    idx - Max(1, (10 * overlapTokens) \div 13)

\* start = Math.max(start + 1, idx - Math.max(1, Math.floor(overlapTokens / 1.3)))
NextStart(start, idx, overlapTokens) ==
    Max(start + 1, idx - Max(1, (10 * overlapTokens) \div 13))

NoChunking == [pc |-> "idle"]

\* chunkText is called on a text of one section
ChunkTextCall(words, chunkSizeTokens, overlapTokens) ==
    /\ chunker.pc \in {"idle", "returned"}
    /\ chunker' = [ pc |-> IF Len(words) = 0 THEN "returned" ELSE "loop",
                    words |-> words, chunkSizeTokens |-> chunkSizeTokens,
                    overlapTokens |-> overlapTokens, start |-> 0, chunks |-> <<>> ]
    /\ UNCHANGED <<agentVars, knowledgeVars, memoryVars, exceptChunker>>

\* one iteration of `while (start < words.length)`
ChunkIteration ==
    LET words == chunker.words
        idx == WindowEnd(words, chunker.start, 0, chunker.chunkSizeTokens)
        selected == SubSeq(words, chunker.start + 1, idx)
        chunk == [ text |-> selected, tokenCount |-> estimateTokenCount(selected),
                   metadata |-> {}, contentHash |-> sha256Hex(selected) ]
        start == NextStart(chunker.start, idx, chunker.overlapTokens)
    IN  /\ chunker.pc = "loop"
        /\ chunker' =
             IF selected = <<>> THEN [chunker EXCEPT !.pc = "returned"]
             ELSE IF idx >= Len(words)
             THEN [chunker EXCEPT !.pc = "returned", !.chunks = Append(@, chunk)]
             ELSE [chunker EXCEPT !.chunks = Append(@, chunk), !.start = start,
                                  !.pc = IF start < Len(words) THEN "loop" ELSE "returned"]
        /\ UNCHANGED <<agentVars, knowledgeVars, memoryVars, exceptChunker>>

ChunkerNext ==
    \/ \E words \in WordLists, chunkSizeTokens \in ChunkSizes, overlapTokens \in Overlaps :
          ChunkTextCall(words, chunkSizeTokens, overlapTokens)
    \/ ChunkIteration

(***************************************************************************)
(* The embedding adapter and cosineSimilarity.  An embedding counts the    *)
(* words of the vocabulary, so all components are non-negative and the     *)
(* similarity is kept as the exact fraction num/den of its square.         *)
(***************************************************************************)
embed(text) ==
    [i \in 1..Len(Vocabulary) |-> Cardinality({j \in 1..Len(text) : text[j] = Vocabulary[i]})]

RECURSIVE DotUpTo(_, _, _)
DotUpTo(a, b, n) == IF n = 0 THEN 0 ELSE a[n] * b[n] + DotUpTo(a, b, n - 1)

ZeroScore == [num |-> 0, den |-> 1]

cosineSimilarity(a, b) ==
    IF Len(a) = 0 \/ Len(b) = 0 \/ Len(a) # Len(b) THEN ZeroScore
    ELSE LET dot == DotUpTo(a, b, Len(a))
             aNorm == DotUpTo(a, a, Len(a))
             bNorm == DotUpTo(b, b, Len(b))
         IN  IF aNorm = 0 \/ bNorm = 0 THEN ZeroScore
             ELSE [num |-> dot * dot, den |-> aNorm * bNorm]

\* s1 < s2 on similarity scores
ScoreLess(s1, s2) == s1.num * s2.den < s2.num * s1.den

(***************************************************************************)
(* repositories-lite: the knowledge store.                                 *)
(***************************************************************************)
ItemMatches(items, input) ==
    { i \in 1..Len(items) :
        /\ items[i].userId = input.userId
        /\ items[i].source = input.source
        /\ items[i].sourceId = input.sourceId }

\* createKnowledgeItem without the reset of deletedAt on an overwrite
createKnowledgeItemKeepsDeleted(items, input, be) ==
    LET matches == ItemMatches(items, input)
    IN  IF matches = {}
        THEN [ items |-> Append(items,
                   [ userId |-> input.userId, source |-> input.source,
                     sourceId |-> input.sourceId, rawText |-> input.rawText,
                     metadata |-> input.metadata, contentHash |-> input.contentHash,
                     deleted |-> FALSE ]),
               id |-> Len(items) + 1, changed |-> TRUE ]
        ELSE LET existing == Min(matches)
             IN  IF items[existing].contentHash = input.contentHash
                 THEN [items |-> items, id |-> existing, changed |-> FALSE]
                 ELSE [ items |-> [items EXCEPT ![existing] =
                           [@ EXCEPT !.rawText = input.rawText,
                                     !.metadata = input.metadata,
                                     !.contentHash =
                                         IF be = "pg" THEN @ ELSE input.contentHash]],
                        id |-> existing, changed |-> TRUE ]

\* createKnowledgeItem: the new item map with the returned {id, changed}.  The
\* SET list of the PostgreSQL upsert leaves content_hash as it was stored.
createKnowledgeItem(items, input, be) ==
    LET matches == ItemMatches(items, input)
    IN  IF matches = {}
        THEN [ items |-> Append(items,
                   [ userId |-> input.userId, source |-> input.source,
                     sourceId |-> input.sourceId, rawText |-> input.rawText,
                     metadata |-> input.metadata, contentHash |-> input.contentHash,
                     deleted |-> FALSE ]),
               id |-> Len(items) + 1, changed |-> TRUE ]
        ELSE LET existing == Min(matches)
             IN  IF items[existing].contentHash = input.contentHash
                 THEN [items |-> items, id |-> existing, changed |-> FALSE]
                 ELSE [ items |-> [items EXCEPT ![existing] =
                           [@ EXCEPT !.rawText = input.rawText,
                                     !.metadata = input.metadata,
                                     !.contentHash =
                                         IF be = "pg" THEN @ ELSE input.contentHash,
                                     !.deleted = FALSE]],
                        id |-> existing, changed |-> TRUE ]

\* softDeleteKnowledgeItem: the item and the cascade over its chunks
softDeleteKnowledgeItem(items, chunks, userId, knowledgeItemId) ==
    IF knowledgeItemId \notin 1..Len(items) \/ items[knowledgeItemId].userId # userId
    THEN [items |-> items, chunks |-> chunks]
    ELSE [ items |-> [items EXCEPT ![knowledgeItemId].deleted = TRUE],
           chunks |-> [c \in 1..Len(chunks) |->
                         IF chunks[c].userId = userId
                            /\ chunks[c].knowledgeItemId = knowledgeItemId
                         THEN [chunks[c] EXCEPT !.deleted = TRUE]
                         ELSE chunks[c]] ]

\* disconnectConnection: the cascade over the items of a provider and their chunks
disconnectConnection(items, chunks, userId, provider) ==
    LET newItems == [i \in 1..Len(items) |->
                       IF items[i].userId = userId /\ items[i].source = provider
                       THEN [items[i] EXCEPT !.deleted = TRUE]
                       ELSE items[i]]
    IN  [ items |-> newItems,
          chunks |-> [c \in 1..Len(chunks) |->
                        IF /\ chunks[c].userId = userId
                           /\ chunks[c].knowledgeItemId \in 1..Len(newItems)
                           /\ newItems[chunks[c].knowledgeItemId].source = provider
                        THEN [chunks[c] EXCEPT !.deleted = TRUE]
                        ELSE chunks[c]] ]

\* updateKnowledgeItemRawText
updateKnowledgeItemRawText(items, userId, knowledgeItemId, rawText, metadata) ==
    IF knowledgeItemId \notin 1..Len(items) \/ items[knowledgeItemId].userId # userId
    THEN items
    ELSE [items EXCEPT ![knowledgeItemId] =
            [@ EXCEPT !.rawText = rawText, !.metadata = metadata, !.deleted = FALSE]]

\* upsertKnowledgeChunks: one iteration of the loop over the chunks to write
UpsertChunk(chunks, chunk) ==
    LET matches == { c \in 1..Len(chunks) :
                       /\ chunks[c].knowledgeItemId = chunk.knowledgeItemId
                       /\ chunks[c].chunkIndex = chunk.chunkIndex }
    IN  IF matches # {}
        THEN [chunks EXCEPT ![Min(matches)] =
                [@ EXCEPT !.text = chunk.text, !.tokenCount = chunk.tokenCount,
                          !.embedding = chunk.embedding, !.metadata = chunk.metadata,
                          !.contentHash = chunk.contentHash, !.deleted = FALSE]]
        ELSE Append(chunks,
                [ knowledgeItemId |-> chunk.knowledgeItemId, userId |-> chunk.userId,
                  chunkIndex |-> chunk.chunkIndex, text |-> chunk.text,
                  tokenCount |-> chunk.tokenCount, embedding |-> chunk.embedding,
                  metadata |-> chunk.metadata, contentHash |-> chunk.contentHash,
                  deleted |-> FALSE ])

RECURSIVE upsertKnowledgeChunks(_, _)
upsertKnowledgeChunks(chunks, toWrite) ==
    IF Len(toWrite) = 0 THEN chunks
    ELSE upsertKnowledgeChunks(UpsertChunk(chunks, Head(toWrite)), Tail(toWrite))

\* the rows ingestFile / ingestNormalizedDocument hand to vectorStore.upsertChunks
ChunkRows(chunked, userId, knowledgeItemId) ==
    [ idx \in 1..Len(chunked) |->
        [ knowledgeItemId |-> knowledgeItemId, userId |-> userId,
          chunkIndex |-> idx - 1, text |-> chunked[idx].text,
          tokenCount |-> chunked[idx].tokenCount, embedding |-> embed(chunked[idx].text),
          metadata |-> chunked[idx].metadata, contentHash |-> chunked[idx].contentHash ] ]

\* listKnowledgeChunksForUser: the ids of the owner's live chunks under live items
RECURSIVE SelectIds(_, _, _, _)
SelectIds(items, chunks, userId, c) ==
    IF c > Len(chunks) THEN <<>>
    ELSE (IF /\ chunks[c].userId = userId
             /\ ~chunks[c].deleted
             /\ chunks[c].knowledgeItemId \in 1..Len(items)
             /\ ~items[chunks[c].knowledgeItemId].deleted
          THEN <<c>> ELSE <<>>)
         \o SelectIds(items, chunks, userId, c + 1)

listKnowledgeChunksForUser(items, chunks, userId) == SelectIds(items, chunks, userId, 1)

(***************************************************************************)
(* LiteVectorStoreAdapter.similaritySearch.  Filters are absent (Null      *)
(* filters are modelled as the empty set, which the code treats alike) or  *)
(* a set of <<key, value>> properties.                                     *)
(***************************************************************************)
\* lite: Object.entries(filters).every(String(chunk.metadata[key] ?? "") === String(value ?? ""))
\* pg:   AND kc.metadata ->> 'key' = $n, which is NULL (not true) when the key is absent
FilterPasses(chunk, filters, be) ==
    IF be = "pg"
    THEN \A f \in filters : f \in chunk.metadata
    ELSE \A f \in filters : MetaGet(chunk.metadata, f[1]) = f[2]

\* Array.prototype.sort with (a, b) => b.score - a.score: stable, descending
RECURSIVE InsertByScore(_, _)
InsertByScore(sorted, row) ==
    IF Len(sorted) = 0 THEN <<row>>
    ELSE IF ScoreLess(Head(sorted).score, row.score)
         THEN <<row>> \o sorted
         ELSE <<Head(sorted)>> \o InsertByScore(Tail(sorted), row)

RECURSIVE SortByScore(_)
SortByScore(rows) ==
    IF Len(rows) = 0 THEN <<>>
    ELSE InsertByScore(SortByScore(SubSeq(rows, 1, Len(rows) - 1)), rows[Len(rows)])

\* Array.prototype.slice(0, k): a negative k counts from the end of the array
Slice(rows, k) ==
    LET end == IF k < 0 THEN Max(Len(rows) + k, 0)
               ELSE IF k < Len(rows) THEN k ELSE Len(rows)
    IN  SubSeq(rows, 1, end)

\* the rows that pass the WHERE clause / the filter of a search, before ranking
Candidates(items, chunks, input, be) ==
    SelectSeq(listKnowledgeChunksForUser(items, chunks, input.userId),
              LAMBDA c : FilterPasses(chunks[c], input.filters, be))

\* `scan` is the order in which the backend visits the candidate rows: insertion
\* order in the lite runtime, any order in PostgreSQL (rows of equal distance
\* come out of ORDER BY in an unspecified order)
similaritySearch(items, chunks, input, be, scan) ==
    LET pass == Candidates(items, chunks, input, be)
        passIds == [r \in 1..Len(pass) |-> pass[scan[r]]]
        rows == [ r \in 1..Len(passIds) |->
                    [ chunkId |-> passIds[r],
                      knowledgeItemId |-> chunks[passIds[r]].knowledgeItemId,
                      score |-> cosineSimilarity(chunks[passIds[r]].embedding, input.embedding),
                      text |-> chunks[passIds[r]].text,
                      metadata |-> chunks[passIds[r]].metadata ] ]
    IN  Slice(SortByScore(rows), input.k)

(***************************************************************************)
(* The inputs of the store operations.                                     *)
(***************************************************************************)
Sources == {"github", "file_drop"}
SourceIds == {"s1"}

\* the normalized documents a caller ingests: raw text and metadata
Documents ==
    { [rawText |-> T1, metadata |-> {<<"lang", "en">>}],
      [rawText |-> T2, metadata |-> {}] }

\* the texts whose embeddings a search is made with
QueryTexts == {<<"a", "b">>, <<"c">>}

\* the filters of a search: none, a property some chunks have, an empty value
FilterSets == {{}, {<<"lang", "en">>}, {<<"lang", "">>}}

\* k: Number(input.k ?? 5) of the planner's tool arguments, any number
KValues == (-1)..MaxK

NoSearch == [op |-> "none"]
NoCall == [op |-> "none"]

ScanPermutations(n) ==
    {f \in [1..n -> 1..n] : \A i, j \in 1..n : f[i] = f[j] => i = j}

ScanOrders(n, be) ==
    IF be = "pg" THEN ScanPermutations(n) ELSE {[i \in 1..n |-> i]}

KnowledgeItemInput(userId, source, sourceId, doc) ==
    [ userId |-> userId, source |-> source, sourceId |-> sourceId,
      rawText |-> doc.rawText, metadata |-> doc.metadata,
      contentHash |-> sha256Hex(doc.rawText) ]

(***************************************************************************)
(* The store operations called directly, each with any owner id and any    *)
(* arguments of its signature.                                             *)
(***************************************************************************)
\* a call takes one of the MaxApiCalls calls of a behaviour when it is counted
Count(counted) ==
    IF counted THEN calls < MaxApiCalls /\ calls' = calls + 1 ELSE UNCHANGED calls

ApiCreateKnowledgeItem(userId, source, sourceId, doc, counted) ==
    LET input == KnowledgeItemInput(userId, source, sourceId, doc)
        out == createKnowledgeItem(knowledgeItems, input, backend)
    IN  /\ Len(out.items) <= MaxItems
        /\ Count(counted)
        /\ knowledgeItems' = out.items
        /\ lastCall' = [ op |-> "createKnowledgeItem", userId |-> userId, input |-> input,
                         id |-> out.id, changed |-> out.changed,
                         found |-> ItemMatches(knowledgeItems, input) # {},
                         wasDeleted |-> \E i \in ItemMatches(knowledgeItems, input) :
                                           knowledgeItems[i].deleted ]
        /\ search' = NoSearch
        /\ UNCHANGED <<backend, knowledgeChunks>>
        /\ UNCHANGED <<restVars, ingestVars>>

ApiSoftDeleteKnowledgeItem(userId, knowledgeItemId, counted) ==
    LET out == softDeleteKnowledgeItem(knowledgeItems, knowledgeChunks, userId, knowledgeItemId)
    IN  /\ knowledgeItemId \in 1..Len(knowledgeItems)
        /\ Count(counted)
        /\ knowledgeItems' = out.items
        /\ knowledgeChunks' = out.chunks
        /\ lastCall' = [ op |-> "softDeleteKnowledgeItem", userId |-> userId,
                         knowledgeItemId |-> knowledgeItemId ]
        /\ search' = NoSearch
        /\ UNCHANGED backend
        /\ UNCHANGED <<restVars, ingestVars>>

ApiDisconnectConnection(userId, provider, counted) ==
    LET out == disconnectConnection(knowledgeItems, knowledgeChunks, userId, provider)
    IN  /\ Count(counted)
        /\ knowledgeItems' = out.items
        /\ knowledgeChunks' = out.chunks
        /\ lastCall' = [op |-> "disconnectConnection", userId |-> userId, provider |-> provider]
        /\ search' = NoSearch
        /\ UNCHANGED backend
        /\ UNCHANGED <<restVars, ingestVars>>

ApiUpsertChunks(userId, knowledgeItemId, doc) ==
    LET chunked == chunkText(doc.rawText, doc.metadata, DocChunkSizeTokens, DocOverlapTokens)
        out == upsertKnowledgeChunks(knowledgeChunks, ChunkRows(chunked, userId, knowledgeItemId))
    IN  /\ knowledgeItemId \in 1..Len(knowledgeItems)
        /\ Count(TRUE)
        /\ knowledgeChunks' = out
        /\ lastCall' = [ op |-> "upsertChunks", userId |-> userId,
                         knowledgeItemId |-> knowledgeItemId ]
        /\ search' = NoSearch
        /\ UNCHANGED <<backend, knowledgeItems>>
        /\ UNCHANGED <<restVars, ingestVars>>

\* a similaritySearch call and what it returned; PostgreSQL rejects a negative
\* LIMIT, so that the call throws
SearchOutcome(items, chunks, input, be, scan) ==
    IF be = "pg" /\ input.k < 0
    THEN [op |-> "similaritySearch", input |-> input, threw |-> TRUE, result |-> <<>>]
    ELSE [ op |-> "similaritySearch", input |-> input, threw |-> FALSE,
           result |-> similaritySearch(items, chunks, input, be, scan) ]

ApiSimilaritySearch(userId, queryText, k, filters) ==
    LET input == [userId |-> userId, embedding |-> embed(queryText), k |-> k,
                  filters |-> filters]
        n == Len(Candidates(knowledgeItems, knowledgeChunks, input, backend))
    IN  /\ Count(TRUE)
        /\ \E scan \in ScanOrders(n, backend) :
              search' = SearchOutcome(knowledgeItems, knowledgeChunks, input, backend, scan)
        /\ lastCall' = [op |-> "similaritySearch", userId |-> userId]
        /\ UNCHANGED <<backend, knowledgeItems, knowledgeChunks>>
        /\ UNCHANGED <<restVars, ingestVars>>

\* the state of the store and of the ingestion machinery before anything ran
StoreEmpty ==
    /\ knowledgeItems = <<>>
    /\ knowledgeChunks = <<>>
    /\ search = NoSearch
    /\ lastCall = NoCall
    /\ calls = 0

\* the operations on knowledge items alone, any number of calls
ItemsNext ==
    \/ \E u \in Users, src \in Sources, sid \in SourceIds, doc \in Documents :
          ApiCreateKnowledgeItem(u, src, sid, doc, FALSE)
    \/ \E u \in Users, id \in 1..MaxItems : ApiSoftDeleteKnowledgeItem(u, id, FALSE)
    \/ \E u \in Users, provider \in Sources : ApiDisconnectConnection(u, provider, FALSE)

\* all the operations, a bounded number of calls
ApiNext ==
    \/ \E u \in Users, src \in Sources, sid \in SourceIds, doc \in Documents :
          ApiCreateKnowledgeItem(u, src, sid, doc, TRUE)
    \/ \E u \in Users, id \in 1..MaxItems : ApiSoftDeleteKnowledgeItem(u, id, TRUE)
    \/ \E u \in Users, provider \in Sources : ApiDisconnectConnection(u, provider, TRUE)
    \/ \E u \in Users, id \in 1..MaxItems, doc \in Documents :
          ApiUpsertChunks(u, id, doc)
    \/ \E u \in Users, q \in QueryTexts, k \in KValues, f \in FilterSets :
          ApiSimilaritySearch(u, q, k, f)

(***************************************************************************)
(* The ingestion service, the file routes and the workers.  Every request  *)
(* and every job of a behaviour is of one owner.                           *)
(***************************************************************************)
IngestUser == "u1"
FileName == "notes.txt"
ProcIds == 1..MaxRacers

\* `${userId}/files/${Date.now()}-${randomUUID()}-${file.name}`: a fresh key per upload
objectKey(userId, stamp) ==
    <<"u1/files/1-notes.txt", "u1/files/2-notes.txt", "u1/files/3-notes.txt",
      "u1/files/4-notes.txt">>[stamp]

\* Buffer.from(await file.arrayBuffer()) of a text file
BytesOf(text) == <<"utf8">> \o text

\* parseDocumentBuffer of a text file
parseDocumentBuffer(bytes) == [text |-> Tail(bytes), metadata |-> "text"]

\* storageAdapter.getObject: the objects stored under a key (none: the call throws)
getObject(key) == {o \in storage : o.key = key}

IdleProc == [pc |-> "idle"]
NoDelivery == [op |-> "none"]

Idle(p) == procs[p].pc = "idle"

\* the ids of the items an ingestion in flight is writing
InFlightItems == {procs[p].id : p \in {q \in ProcIds : procs[q].pc # "idle"}}

\* a delivery of `job` is a second delivery when the delivery that completed
\* last was of the same job, it returned normally, and nothing ran since
IsRedelivery(job) ==
    /\ lastDelivery.op # "none"
    /\ lastDelivery.ok
    /\ lastDelivery.job = job
    /\ \A p \in ProcIds : Idle(p)

\* a delivery of `job` is a retry when the delivery that ended last was of
\* the same job, it ended with the error of the embedding adapter, and nothing
\* ran since
IsRetry(job) ==
    /\ lastDelivery.op # "none"
    /\ ~lastDelivery.ok
    /\ lastDelivery.embedCalls = 1
    /\ lastDelivery.job = job
    /\ \A p \in ProcIds : Idle(p)

\* an operation other than the steps of proc p ran: no delivery in flight is
\* a second delivery on the state the first one left any more
Disturb(ps, p) ==
    [q \in ProcIds |-> IF q # p /\ ps[q].pc # "idle"
                       THEN [ps[q] EXCEPT !.re = FALSE, !.retry = FALSE, !.snap = <<>>]
                       ELSE ps[q]]

\* ingestFile from the object it read up to its suspension on the embedding
\* adapter: parseDocumentBuffer, chunkText, updateKnowledgeItemRawText.  (The
\* suspensions before it write nothing.)  Gives the items and the ingestion in flight.
ingestFileBegin(items, chunks, job, bytes, re) ==
    LET parsed == parseDocumentBuffer(bytes)
        chunked == chunkText(parsed.text, {<<"filename", job.fileName>>},
                             FileChunkSizeTokens, FileOverlapTokens)
    IN  [ items |-> updateKnowledgeItemRawText(items, job.userId, job.knowledgeItemId,
                        parsed.text,
                        {<<"filename", job.fileName>>, <<"parser", parsed.metadata>>}),
          proc |-> [ pc |-> "embedding", op |-> "ingestFile", job |-> job,
                     id |-> job.knowledgeItemId, chunked |-> chunked, re |-> re,
                     retry |-> IsRetry(job),
                     snap |-> IF re THEN <<items, chunks>> ELSE <<>> ] ]

\* POST /api/files, the part of both runtimes: the object key, the bytes, the
\* item that createKnowledgeItem made and the payload of the ingestion
Upload(text) ==
    LET key == objectKey(IngestUser, Len(knowledgeItems) + 1)
        bytes == BytesOf(text)
        out == createKnowledgeItem(knowledgeItems,
                   [ userId |-> IngestUser, source |-> "file_drop", sourceId |-> key,
                     rawText |-> NullText,
                     metadata |-> {<<"filename", FileName>>, <<"objectKey", key>>},
                     contentHash |-> sha256Hex(bytes) ], backend)
    IN  [ object |-> [key |-> key, bytes |-> bytes], items |-> out.items,
          job |-> [ kind |-> "file", userId |-> IngestUser, knowledgeItemId |-> out.id,
                    objectKey |-> key, fileName |-> FileName ] ]

\* POST /api/files in the lite runtime: putObject, createKnowledgeItem and
\* ingestFile called inline, here up to its suspension on the embedding adapter
UploadFileInline(p, text) ==
    LET up == Upload(text)
        begun == ingestFileBegin(up.items, knowledgeChunks, up.job, up.object.bytes, FALSE)
    IN  /\ backend = "lite"
        /\ Idle(p)
        /\ Len(knowledgeItems) < MaxItems
        /\ storage' = storage \cup {up.object}
        /\ knowledgeItems' = begun.items
        /\ procs' = [Disturb(procs, p) EXCEPT ![p] = begun.proc]
        /\ lastDelivery' = NoDelivery
        /\ search' = NoSearch
        /\ UNCHANGED <<backend, knowledgeChunks, lastCall, calls, jobs, tomb>>
        /\ UNCHANGED restVars

\* POST /api/files in the queue runtime: putObject, createKnowledgeItem and
\* ingestionQueue.add
UploadFileQueued(text) ==
    LET up == Upload(text)
    IN  /\ backend = "pg"
        /\ Len(knowledgeItems) < MaxItems
        /\ storage' = storage \cup {up.object}
        /\ knowledgeItems' = up.items
        /\ jobs' = jobs \cup {up.job}
        /\ procs' = Disturb(procs, 0)
        /\ lastDelivery' = NoDelivery
        /\ search' = NoSearch
        /\ UNCHANGED <<backend, knowledgeChunks, lastCall, calls, tomb>>
        /\ UNCHANGED restVars

\* the ingestion worker takes a file job (the queue delivers at least once):
\* ingestFile up to its suspension on the embedding adapter, or the throw of getObject
FileStart(p, knowledgeItemId) ==
    /\ Idle(p)
    /\ \E job \in jobs :
          /\ job.knowledgeItemId = knowledgeItemId
          /\ IF getObject(job.objectKey) = {}
             THEN /\ lastDelivery' = [ op |-> "ingestFile", job |-> job, ok |-> FALSE,
                                       redelivery |-> IsRedelivery(job),
                                       retry |-> IsRetry(job), chunks |-> 0,
                                       embedCalls |-> 0, chunkWrites |-> 0, same |-> TRUE ]
                  /\ procs' = Disturb(procs, p)
                  /\ UNCHANGED knowledgeItems
             ELSE LET object == CHOOSE o \in getObject(job.objectKey) : TRUE
                      begun == ingestFileBegin(knowledgeItems, knowledgeChunks, job,
                                               object.bytes, IsRedelivery(job))
                  IN  /\ knowledgeItems' = begun.items
                      /\ procs' = [Disturb(procs, p) EXCEPT ![p] = begun.proc]
                      /\ lastDelivery' = NoDelivery
    /\ search' = NoSearch
    /\ UNCHANGED <<backend, knowledgeChunks, lastCall, calls, storage, jobs, tomb>>
    /\ UNCHANGED restVars

\* ingestNormalizedDocument up to its first suspension: sha256Hex,
\* createKnowledgeItem, the dedup gate and chunkText
DocStart(p, doc) ==
    LET input == KnowledgeItemInput(IngestUser, "github", "s1", doc)
        job == [kind |-> "document", input |-> input]
        out == createKnowledgeItem(knowledgeItems, input, backend)
        chunked == chunkText(doc.rawText, doc.metadata, DocChunkSizeTokens, DocOverlapTokens)
    IN  /\ Idle(p)
        /\ Len(out.items) <= MaxItems
        /\ knowledgeItems' = out.items
        /\ tomb' = {t \in tomb : t.id # out.id \/ t.rawText = doc.rawText}
        /\ search' = NoSearch
        /\ UNCHANGED <<backend, knowledgeChunks, lastCall, calls, storage, jobs>>
        /\ UNCHANGED restVars
        /\ IF ~out.changed
           THEN /\ lastDelivery' = [ op |-> "ingestNormalizedDocument", job |-> job,
                                     ok |-> TRUE, redelivery |-> IsRedelivery(job),
                                     retry |-> IsRetry(job), chunks |-> 0, embedCalls |-> 0, chunkWrites |-> 0,
                                     same |-> TRUE ]
                /\ procs' = Disturb(procs, p)
           ELSE /\ procs' = [Disturb(procs, p) EXCEPT ![p] =
                       [ pc |-> "embedding", op |-> "ingestNormalizedDocument",
                         job |-> job, id |-> out.id, chunked |-> chunked,
                         re |-> IsRedelivery(job), retry |-> IsRetry(job),
                         snap |-> IF IsRedelivery(job)
                                  THEN <<knowledgeItems, knowledgeChunks>> ELSE <<>> ]]
                /\ lastDelivery' = NoDelivery

\* the embedding adapter returned: vectorStore.upsertChunks, the audit log and return
Embedded(p) ==
    LET proc == procs[p]
        rows == ChunkRows(proc.chunked, IngestUser, proc.id)
        out == upsertKnowledgeChunks(knowledgeChunks, rows)
    IN  /\ proc.pc = "embedding"
        /\ knowledgeChunks' = out
        /\ procs' = [Disturb(procs, p) EXCEPT ![p] = IdleProc]
        /\ lastDelivery' = [ op |-> proc.op, job |-> proc.job, ok |-> TRUE,
                             redelivery |-> proc.re, retry |-> proc.retry,
                             chunks |-> Len(rows),
                             embedCalls |-> 1, chunkWrites |-> Len(rows),
                             same |-> proc.re /\ proc.snap = <<knowledgeItems, out>> ]
        /\ search' = NoSearch
        /\ UNCHANGED <<backend, knowledgeItems, lastCall, calls, storage, jobs, tomb>>
        /\ UNCHANGED restVars

\* the embedding adapter threw: the ingestion ends with the error
EmbedFailed(p) ==
    LET proc == procs[p]
    IN  /\ proc.pc = "embedding"
        /\ procs' = [Disturb(procs, p) EXCEPT ![p] = IdleProc]
        /\ lastDelivery' = [ op |-> proc.op, job |-> proc.job, ok |-> FALSE,
                             redelivery |-> proc.re, retry |-> proc.retry,
                             chunks |-> 0,
                             embedCalls |-> 1, chunkWrites |-> 0, same |-> FALSE ]
        /\ search' = NoSearch
        /\ UNCHANGED <<backend, knowledgeItems, knowledgeChunks, lastCall, calls, storage, jobs, tomb>>
        /\ UNCHANGED restVars

\* the owner deleted these items while no ingestion of them was in flight
Entomb(ids) ==
    {t \in tomb : t.id \notin ids}
    \cup {[id |-> i, rawText |-> knowledgeItems[i].rawText] : i \in ids \ InFlightItems}

\* DELETE /api/files: getKnowledgeItemById, storage.deleteObject (its failure
\* is swallowed) and softDeleteKnowledgeItem
DeleteKnowledgeItem(knowledgeItemId, deleteObjectOk) ==
    LET item == knowledgeItems[knowledgeItemId]
        out == softDeleteKnowledgeItem(knowledgeItems, knowledgeChunks, IngestUser,
                                       knowledgeItemId)
    IN  /\ knowledgeItemId \in 1..Len(knowledgeItems)
        /\ item.source # "file_drop" => deleteObjectOk
        /\ storage' = IF item.source = "file_drop" /\ deleteObjectOk
                      THEN {o \in storage : o.key # item.sourceId}
                      ELSE storage
        /\ knowledgeItems' = out.items
        /\ knowledgeChunks' = out.chunks
        /\ tomb' = Entomb({knowledgeItemId})
        /\ procs' = Disturb(procs, 0)
        /\ lastDelivery' = NoDelivery
        /\ search' = NoSearch
        /\ UNCHANGED <<backend, lastCall, calls, jobs>>
        /\ UNCHANGED restVars

\* DELETE /api/connections: disconnectConnection
DisconnectProvider(provider) ==
    LET out == disconnectConnection(knowledgeItems, knowledgeChunks, IngestUser, provider)
    IN  /\ knowledgeItems' = out.items
        /\ knowledgeChunks' = out.chunks
        /\ tomb' = Entomb({i \in 1..Len(knowledgeItems) : knowledgeItems[i].source = provider})
        /\ procs' = Disturb(procs, 0)
        /\ lastDelivery' = NoDelivery
        /\ search' = NoSearch
        /\ UNCHANGED <<backend, lastCall, calls, storage, jobs>>
        /\ UNCHANGED restVars

\* a retrieval of the owner
Search(queryText, k) ==
    LET input == [userId |-> IngestUser, embedding |-> embed(queryText), k |-> k,
                  filters |-> {}]
        n == Len(Candidates(knowledgeItems, knowledgeChunks, input, backend))
    IN  /\ \E scan \in ScanOrders(n, backend) :
              search' = SearchOutcome(knowledgeItems, knowledgeChunks, input, backend, scan)
        /\ UNCHANGED <<backend, knowledgeItems, knowledgeChunks, lastCall, calls>>
        /\ UNCHANGED <<restVars, ingestVars>>

IngestIdle ==
    /\ storage = {}
    /\ jobs = {}
    /\ procs = [p \in ProcIds |-> IdleProc]
    /\ lastDelivery = NoDelivery
    /\ tomb = {}

IngestNext ==
    \/ \E p \in 1..MaxProcs, text \in {T1, T2} : UploadFileInline(p, text)
    \/ \E text \in {T1, T2} : UploadFileQueued(text)
    \/ \E p \in 1..MaxProcs, id \in 1..MaxItems : FileStart(p, id)
    \/ \E p \in 1..MaxProcs, doc \in Documents : DocStart(p, doc)
    \/ \E p \in 1..MaxProcs : Embedded(p)
    \/ \E p \in 1..MaxProcs : EmbedFailed(p)
    \/ \E id \in 1..MaxItems, ok \in BOOLEAN : DeleteKnowledgeItem(id, ok)
    \/ DisconnectProvider("github")
    \/ Search(<<"c">>, MaxK)

\* several ingestions of the document (u1, github, s1) at once
RaceNext ==
    \/ \E p \in ProcIds, doc \in Documents : DocStart(p, doc)
    \/ \E p \in ProcIds : Embedded(p)
    \/ \E p \in ProcIds : EmbedFailed(p)

(***************************************************************************)
(* The two runtimes side by side: every call is made on the lite store and *)
(* on the PostgreSQL store.                                                *)
(***************************************************************************)
NoTwin ==
    [ calls |-> 0, last |-> [op |-> "none"],
      lite |-> [items |-> <<>>, chunks |-> <<>>],
      pg |-> [items |-> <<>>, chunks |-> <<>>] ]

TwinCreateKnowledgeItem(userId, sourceId, doc) ==
    LET input == KnowledgeItemInput(userId, "github", sourceId, doc)
        lite == createKnowledgeItem(twin.lite.items, input, "lite")
        pg == createKnowledgeItem(twin.pg.items, input, "pg")
    IN  /\ twin.calls < MaxApiCalls
        /\ Len(lite.items) <= MaxItems
        /\ twin' = [ calls |-> twin.calls + 1,
                     last |-> [ op |-> "createKnowledgeItem",
                                lite |-> [id |-> lite.id, changed |-> lite.changed],
                                pg |-> [id |-> pg.id, changed |-> pg.changed] ],
                     lite |-> [twin.lite EXCEPT !.items = lite.items],
                     pg |-> [twin.pg EXCEPT !.items = pg.items] ]
        /\ UNCHANGED <<agentVars, knowledgeVars, memoryVars, exceptTwin>>

TwinUpsertChunks(userId, knowledgeItemId, doc) ==
    LET rows == ChunkRows(chunkText(doc.rawText, doc.metadata, DocChunkSizeTokens,
                                    DocOverlapTokens), userId, knowledgeItemId)
    IN  /\ twin.calls < MaxApiCalls
        /\ knowledgeItemId \in 1..Len(twin.lite.items)
        /\ twin' = [ calls |-> twin.calls + 1,
                     last |-> [op |-> "upsertChunks", lite |-> Len(rows), pg |-> Len(rows)],
                     lite |-> [twin.lite EXCEPT !.chunks = upsertKnowledgeChunks(@, rows)],
                     pg |-> [twin.pg EXCEPT !.chunks = upsertKnowledgeChunks(@, rows)] ]
        /\ UNCHANGED <<agentVars, knowledgeVars, memoryVars, exceptTwin>>

TwinSoftDeleteKnowledgeItem(userId, knowledgeItemId) ==
    LET lite == softDeleteKnowledgeItem(twin.lite.items, twin.lite.chunks, userId,
                                        knowledgeItemId)
        pg == softDeleteKnowledgeItem(twin.pg.items, twin.pg.chunks, userId, knowledgeItemId)
    IN  /\ twin.calls < MaxApiCalls
        /\ knowledgeItemId \in 1..Len(twin.lite.items)
        /\ twin' = [ calls |-> twin.calls + 1,
                     last |-> [op |-> "softDeleteKnowledgeItem", lite |-> TRUE, pg |-> TRUE],
                     lite |-> [items |-> lite.items, chunks |-> lite.chunks],
                     pg |-> [items |-> pg.items, chunks |-> pg.chunks] ]
        /\ UNCHANGED <<agentVars, knowledgeVars, memoryVars, exceptTwin>>

TwinSimilaritySearch(userId, queryText, k, filters) ==
    LET input == [userId |-> userId, embedding |-> embed(queryText), k |-> k,
                  filters |-> filters]
        n == Len(Candidates(twin.pg.items, twin.pg.chunks, input, "pg"))
        m == Len(Candidates(twin.lite.items, twin.lite.chunks, input, "lite"))
        Answer(out) == [threw |-> out.threw, result |-> out.result]
    IN  /\ twin.calls < MaxApiCalls
        /\ \E scan \in ScanOrders(n, "pg") :
              twin' = [twin EXCEPT
                 !.calls = @ + 1,
                 !.last = [ op |-> "similaritySearch", k |-> k,
                            lite |-> Answer(SearchOutcome(twin.lite.items, twin.lite.chunks,
                                         input, "lite", [i \in 1..m |-> i])),
                            pg |-> Answer(SearchOutcome(twin.pg.items, twin.pg.chunks,
                                         input, "pg", scan)) ]]
        /\ UNCHANGED <<agentVars, knowledgeVars, memoryVars, exceptTwin>>

TwinNext ==
    \/ \E sid \in {"s1", "s2"}, doc \in Documents : TwinCreateKnowledgeItem(IngestUser, sid, doc)
    \/ \E id \in 1..MaxItems, doc \in Documents : TwinUpsertChunks(IngestUser, id, doc)
    \/ \E id \in 1..MaxItems : TwinSoftDeleteKnowledgeItem(IngestUser, id)
    \/ \E q \in QueryTexts, k \in 1..MaxK, filters \in FilterSets :
          TwinSimilaritySearch(IngestUser, q, k, filters)

(***************************************************************************)
(* IngestionService.syncConnection.                                        *)
(***************************************************************************)
\* a document as the connectors build it: metadata.contentHash is sha256Hex(rawText)
ConnectorDocument(sourceId, rawText) ==
    [ userId |-> IngestUser, source |-> "github", sourceId |-> sourceId, rawText |-> rawText,
      metadata |-> {<<"contentHash", sha256Hex(rawText)>>} ]

\* result.documents of connector.sync
SyncResults ==
    { <<>>,
      <<ConnectorDocument("s1", T1)>>,
      <<ConnectorDocument("s1", T2)>>,
      <<ConnectorDocument("s2", <<>>)>>,
      <<ConnectorDocument("s1", T1), ConnectorDocument("s2", T2)>>,
      <<ConnectorDocument("s1", T2), ConnectorDocument("s2", T1)>> }

\* upsertDocumentBatch: createKnowledgeItem per document, with the hash of its metadata
RECURSIVE upsertDocumentBatch(_, _, _)
upsertDocumentBatch(items, documents, be) ==
    IF Len(documents) = 0 THEN items
    ELSE LET document == Head(documents)
             created == createKnowledgeItem(items,
                            [ userId |-> document.userId, source |-> document.source,
                              sourceId |-> document.sourceId, rawText |-> document.rawText,
                              metadata |-> document.metadata,
                              contentHash |-> MetaGet(document.metadata, "contentHash") ],
                            be)
         IN  upsertDocumentBatch(created.items, Tail(documents), be)

NoSync == [pc |-> "idle"]

\* syncConnection up to its loop: getConnectionById, connector.sync and
\* upsertDocumentBatch
SyncConnection(owned, documents) ==
    /\ sync.pc \in {"idle", "completed", "rejected"}
    /\ IF ~owned
       THEN /\ sync' = [pc |-> "rejected", documents |-> <<>>, next |-> 1]
            /\ UNCHANGED knowledgeItems
       ELSE /\ sync' = [pc |-> "ingesting", documents |-> documents, next |-> 1]
            /\ knowledgeItems' = upsertDocumentBatch(knowledgeItems, documents, backend)
    /\ UNCHANGED <<backend, knowledgeChunks, search, lastCall, calls>>
    /\ UNCHANGED <<ingestVars, agentVars, memoryVars, exceptSync>>

\* one turn of the loop, up to the suspension of ingestNormalizedDocument on
\* the embedding adapter
SyncIngestDocument ==
    LET doc == sync.documents[sync.next]
        input == KnowledgeItemInput(doc.userId, doc.source, doc.sourceId, doc)
        out == createKnowledgeItem(knowledgeItems, input, backend)
    IN  /\ sync.pc = "ingesting"
        /\ sync.next <= Len(sync.documents)
        /\ IF doc.rawText = <<>>
           THEN /\ sync' = [sync EXCEPT !.next = @ + 1]
                /\ UNCHANGED knowledgeItems
           ELSE /\ knowledgeItems' = out.items
                /\ sync' = IF ~out.changed
                           THEN [sync EXCEPT !.next = @ + 1]
                           ELSE [ pc |-> "embedding", documents |-> sync.documents,
                                  next |-> sync.next, id |-> out.id,
                                  chunked |-> chunkText(doc.rawText, doc.metadata,
                                                 DocChunkSizeTokens, DocOverlapTokens) ]
        /\ UNCHANGED <<backend, knowledgeChunks, search, lastCall, calls>>
        /\ UNCHANGED <<ingestVars, agentVars, memoryVars, exceptSync>>

\* the embedding adapter returned: vectorStore.upsertChunks, the audit log,
\* and the loop goes on
SyncEmbedded ==
    /\ sync.pc = "embedding"
    /\ knowledgeChunks' = upsertKnowledgeChunks(knowledgeChunks,
                              ChunkRows(sync.chunked, IngestUser, sync.id))
    /\ sync' = [pc |-> "ingesting", documents |-> sync.documents, next |-> sync.next + 1]
    /\ UNCHANGED <<backend, knowledgeItems, search, lastCall, calls>>
    /\ UNCHANGED <<ingestVars, agentVars, memoryVars, exceptSync>>

\* the embedding adapter threw: syncConnection rejects
SyncEmbedFailed ==
    /\ sync.pc = "embedding"
    /\ sync' = [pc |-> "rejected", documents |-> sync.documents, next |-> sync.next]
    /\ UNCHANGED <<knowledgeVars, agentVars, memoryVars, exceptSync>>

\* the loop is over: "connection sync completed"
SyncCompleted ==
    /\ sync.pc = "ingesting"
    /\ sync.next > Len(sync.documents)
    /\ sync' = [sync EXCEPT !.pc = "completed"]
    /\ UNCHANGED <<knowledgeVars, agentVars, memoryVars, exceptSync>>

NoConnection == [exists |-> FALSE]

\* POST /api/connections: upsertConnection
Connect ==
    /\ ~connection.exists
    /\ connection' = [exists |-> TRUE]
    /\ UNCHANGED <<agentVars, knowledgeVars, memoryVars, exceptConnection>>

\* DELETE /api/connections: disconnectConnection removes the connection and
\* soft-deletes the items of the provider with their chunks
Disconnect ==
    LET out == disconnectConnection(knowledgeItems, knowledgeChunks, IngestUser, "github")
    IN  /\ knowledgeItems' = out.items
        /\ knowledgeChunks' = out.chunks
        /\ connection' = [exists |-> FALSE]
        /\ UNCHANGED <<backend, search, lastCall, calls>>
        /\ UNCHANGED <<ingestVars, agentVars, memoryVars, exceptConnection>>

\* syncConnection up to its suspension on connector.sync: getConnectionById
\* and the ownership test
SyncStarted ==
    /\ sync.pc \in {"idle", "completed", "rejected"}
    /\ sync' = IF connection.exists
               THEN [pc |-> "fetching", documents |-> <<>>, next |-> 1]
               ELSE [pc |-> "rejected", documents |-> <<>>, next |-> 1]
    /\ UNCHANGED <<knowledgeVars, agentVars, memoryVars, exceptSync>>

\* connector.sync returned: upsertDocumentBatch, and the loop begins
SyncFetched(documents) ==
    /\ sync.pc = "fetching"
    /\ Len(upsertDocumentBatch(knowledgeItems, documents, backend)) <= MaxItems
    /\ sync' = [pc |-> "ingesting", documents |-> documents, next |-> 1]
    /\ knowledgeItems' = upsertDocumentBatch(knowledgeItems, documents, backend)
    /\ UNCHANGED <<backend, knowledgeChunks, search, lastCall, calls>>
    /\ UNCHANGED <<ingestVars, agentVars, memoryVars, exceptSync>>

\* a sync of the owner's connection that connecting and disconnecting overlap
DisconnectNext ==
    \/ Connect
    \/ Disconnect
    \/ SyncStarted
    \/ \E documents \in SyncResults : SyncFetched(documents)
    \/ SyncIngestDocument
    \/ SyncEmbedded
    \/ SyncEmbedFailed
    \/ SyncCompleted

SyncNext ==
    \/ \E owned \in BOOLEAN, documents \in SyncResults : SyncConnection(owned, documents)
    \/ SyncIngestDocument
    \/ SyncEmbedded
    \/ SyncEmbedFailed
    \/ SyncCompleted

(***************************************************************************)
(* POST /api/chat, the streaming answer.  The events of the response are   *)
(* the chunks the controller took; the caller's abort cancels the stream.  *)
(***************************************************************************)
\* the deltas llm.stream reads from the model, some of them empty
Generations == { <<>>, <<"Hello ">>, <<"Hello ", "world">>, <<"Hello ", "", "world", "">> }

NoStream == [pc |-> "idle"]

\* the stream is cancelled
ControllerAlwaysWritable(s) == TRUE

\* controller.enqueue and controller.close throw once the stream is cancelled
ControllerWritable(s) == ~s.cancelled

\* send(event, payload)
Send(s, event) ==
    IF ControllerWritable(s)
    THEN [s EXCEPT !.events = Append(@, event)]
    ELSE [s EXCEPT !.threw = TRUE]

\* finally { controller.close() }
Finally(s) ==
    IF ControllerWritable(s) THEN [s EXCEPT !.pc = "closed"]
    ELSE [s EXCEPT !.pc = "crashed", !.threw = TRUE]

\* catch (error) { send("error", ...) } finally { controller.close() }
Catch(s) ==
    LET sent == Send([s EXCEPT !.threw = FALSE], [event |-> "error"])
    IN  IF sent.threw THEN [sent EXCEPT !.pc = "crashed"] ELSE Finally(sent)

\* the route up to the first suspension of streamRagAnswer: saveMessage of the
\* user's message, the stream's start and send("meta")
StreamOpen(parts) ==
    /\ stream.pc \in {"idle", "closed", "crashed"}
    /\ Len(messages) < MaxMessages
    /\ messages' = Append(messages, [role |-> "user", content |-> <<"text">>])
    /\ stream' = [ pc |-> "retrieving", request |-> Len(messages) + 1,
                   parts |-> parts, next |-> 1, acc |-> <<>>,
                   events |-> <<[event |-> "meta"]>>, cancelled |-> FALSE,
                   tokensLeftAtAbort |-> FALSE, threw |-> FALSE ]
    /\ UNCHANGED <<memories, reflection, agentVars, knowledgeVars, exceptStream>>

\* embed, similaritySearch, memorySearch and getConversationMessages returned
StreamRetrieved ==
    /\ stream.pc = "retrieving"
    /\ stream' = [stream EXCEPT !.pc = "streaming"]
    /\ UNCHANGED <<memoryVars, agentVars, knowledgeVars, exceptStream>>

\* `for await (const part of stream)`: one delta; an empty one is skipped,
\* another one is accumulated and handed to onToken
StreamPart ==
    LET token == stream.parts[stream.next]
        taken == [stream EXCEPT !.next = @ + 1]
        sent == Send([taken EXCEPT !.acc = Append(@, token)],
                     [event |-> "token", token |-> token])
    IN  /\ stream.pc = "streaming"
        /\ stream.next <= Len(stream.parts)
        /\ stream' = IF token = "" THEN taken
                     ELSE IF sent.threw THEN Catch(sent)
                     ELSE sent
        /\ UNCHANGED <<memoryVars, agentVars, knowledgeVars, exceptStream>>

\* the deltas are over: llm.stream returns the accumulated answer
StreamGenerated ==
    /\ stream.pc = "streaming"
    /\ stream.next > Len(stream.parts)
    /\ stream' = [stream EXCEPT !.pc = "saving"]
    /\ UNCHANGED <<memoryVars, agentVars, knowledgeVars, exceptStream>>

\* saveMessage of the assistant's answer returned: streamRagAnswer returns and
\* the route sends "done"
StreamSaved ==
    LET sent == Send(stream, [event |-> "done", answer |-> stream.acc, citations |-> <<>>])
    IN  /\ stream.pc = "saving"
        /\ messages' = Append(messages, [role |-> "assistant", content |-> stream.acc])
        /\ stream' = IF sent.threw THEN Catch(sent) ELSE [sent EXCEPT !.pc = "reflecting"]
        /\ UNCHANGED <<memories, reflection, agentVars, knowledgeVars, exceptStream>>

\* queueReflectionIfNeeded returned
StreamReflectionQueued ==
    /\ stream.pc = "reflecting"
    /\ stream' = Finally(stream)
    /\ UNCHANGED <<memoryVars, agentVars, knowledgeVars, exceptStream>>

\* a suspension of the handler rejected: the retrieval, the model's stream,
\* saveMessage, or queueReflectionIfNeeded
StreamRejected ==
    /\ stream.pc \in {"retrieving", "streaming", "saving", "reflecting"}
    /\ stream' = Catch(stream)
    /\ UNCHANGED <<memoryVars, agentVars, knowledgeVars, exceptStream>>

\* the caller aborts the request: the response stream is cancelled
StreamAbort ==
    /\ stream.pc \in {"retrieving", "streaming", "saving", "reflecting"}
    /\ ~stream.cancelled
    /\ stream' = [stream EXCEPT !.cancelled = TRUE,
                     !.tokensLeftAtAbort =
                         \E i \in stream.next..Len(stream.parts) : stream.parts[i] # ""]
    /\ UNCHANGED <<memoryVars, agentVars, knowledgeVars, exceptStream>>

StreamNext ==
    \/ \E parts \in Generations : StreamOpen(parts)
    \/ StreamRetrieved
    \/ StreamPart
    \/ StreamGenerated
    \/ StreamSaved
    \/ StreamReflectionQueued
    \/ StreamRejected
    \/ StreamAbort

(***************************************************************************)
(* The chat routes' reflection cadence.  Only the number of messages of    *)
(* the conversation matters to it.                                         *)
(***************************************************************************)
ReflectionEvery == 10
MessageWindow == 100

NoChat == [total |-> 0, turns |-> 0, seen |-> 0, triggered |-> FALSE, sinceTrigger |-> 0,
           learning |-> TRUE, backlog |-> 0]

\* getConversationMessages(conversationId, limit), as a number of messages
getConversationMessages(total, limit) == IF total < limit THEN total ELSE limit

\* queueReflectionIfNeeded: whether it goes past `messages.length % 10 !== 0`
queueReflectionIfNeeded(total) ==
    getConversationMessages(total, MessageWindow) % ReflectionEvery = 0

\* a chat turn: the user's message and the assistant's answer are saved, then
\* queueReflectionIfNeeded.  In the lite runtime the reflection runs within
\* the request and, when learning is allowed, ends with its system message;
\* otherwise a job is queued.
ChatTurn(allowLearning, completes) ==
    LET total == chat.total + 2
        triggered == queueReflectionIfNeeded(total)
        inline == triggered /\ backend = "lite"
    IN  /\ total <= MaxChatMessages
        /\ backend = "pg" => chat.backlog < MaxBacklog
        /\ chat' = [ total |-> IF inline /\ allowLearning /\ completes
                               THEN total + 1 ELSE total,
                     turns |-> chat.turns + 1,
                     seen |-> total,
                     triggered |-> triggered,
                     sinceTrigger |-> IF triggered THEN 0 ELSE chat.sinceTrigger + 2,
                     learning |-> chat.learning /\ allowLearning /\ completes,
                     backlog |-> IF triggered /\ backend = "pg"
                                 THEN chat.backlog + 1 ELSE chat.backlog ]
        /\ UNCHANGED <<agentVars, knowledgeVars, memoryVars, exceptChat>>

\* the reflection worker takes a job: runMemoryReflection with the user's
\* setting, which ends with its system message when learning is allowed
ReflectionWorker(allowLearning, completes) ==
    /\ chat.backlog > 0
    /\ chat.total < MaxChatMessages
    /\ chat' = [chat EXCEPT
                  !.backlog = @ - 1,
                  !.total = IF allowLearning /\ completes THEN @ + 1 ELSE @,
                  !.sinceTrigger = IF allowLearning /\ completes THEN @ + 1 ELSE @,
                  !.learning = @ /\ allowLearning /\ completes]
    /\ UNCHANGED <<agentVars, knowledgeVars, memoryVars, exceptChat>>

ChatNext ==
    \/ \E allowLearning \in BOOLEAN, completes \in BOOLEAN : ChatTurn(allowLearning, completes)
    \/ \E allowLearning \in BOOLEAN, completes \in BOOLEAN :
          ReflectionWorker(allowLearning, completes)

(***************************************************************************)
(* retryAsync.  An error message is a sequence of characters.              *)
(***************************************************************************)
UpperCase == <<"A", "B", "C", "D", "E", "F", "G", "H", "I", "J", "K", "L", "M", "N", "O", "P", "Q", "R", "S", "T", "U", "V", "W", "X", "Y", "Z">>
LowerCase == <<"a", "b", "c", "d", "e", "f", "g", "h", "i", "j", "k", "l", "m", "n", "o", "p", "q", "r", "s", "t", "u", "v", "w", "x", "y", "z">>

\* String.prototype.toLowerCase
toLowerCase(message) ==
    [ i \in 1..Len(message) |->
        IF \E l \in 1..Len(UpperCase) : UpperCase[l] = message[i]
        THEN LowerCase[CHOOSE l \in 1..Len(UpperCase) : UpperCase[l] = message[i]]
        ELSE message[i] ]

\* String.prototype.includes
includes(message, pattern) ==
    \E start \in 0..(Len(message) - Len(pattern)) :
        \A i \in 1..Len(pattern) : message[start + i] = pattern[i]

TransientPatterns ==
    { <<"t", "i", "m", "e", "o", "u", "t">>,
      <<"t", "i", "m", "e", "d", " ", "o", "u", "t">>,
      <<"r", "a", "t", "e", " ", "l", "i", "m", "i", "t">>,
      <<"t", "o", "o", " ", "m", "a", "n", "y", " ", "r", "e", "q", "u", "e", "s", "t", "s">>,
      <<"t", "e", "m", "p", "o", "r", "a", "r">>,
      <<"e", "c", "c", "o", "n", "n", "r", "e", "s", "e", "t">>,
      <<"e", "c", "o", "n", "n", "r", "e", "s", "e", "t">>,
      <<"e", "a", "i", "_", "a", "g", "a", "i", "n">>,
      <<"e", "n", "o", "t", "f", "o", "u", "n", "d">>,
      <<"n", "e", "t", "w", "o", "r", "k">> }

\* what an operation rejects with: an Error with a status (0: none) and a
\* retryAfter in ms (0: none), or the value undefined
Failure(status, message, retryAfter) ==
    [kind |-> "error", status |-> status, message |-> message, retryAfter |-> retryAfter]

UndefinedError == [kind |-> "undefined"]

\* new Error("Retry failed without a captured error")
FallbackError == Failure(0, <<"R", "e", "t", "r", "y", " ", "f", "a", "i", "l", "e", "d">>, 0)

Failures ==
    { Failure(400, <<"B", "a", "d">>, 0),
      Failure(401, <<>>, 0),
      Failure(408, <<>>, 0),
      Failure(409, <<>>, 0),
      Failure(425, <<>>, 0),
      Failure(429, <<>>, 3),
      Failure(500, <<>>, 0),
      Failure(0, <<"T", "i", "m", "e", "d", " ", "O", "u", "t">>, 0),
      UndefinedError }

\* getErrorStatus: 0 when the error has no numeric status
getErrorStatus(error) == IF error.kind = "error" THEN error.status ELSE 0

\* isLikelyTransientError
isLikelyTransientError(error) ==
    LET status == getErrorStatus(error)
        lower == IF error.kind = "error" THEN toLowerCase(error.message) ELSE <<>>
    IN  \/ status \in {408, 425, 429}
        \/ status >= 500
        \/ /\ Len(lower) > 0
           /\ \E pattern \in TransientPatterns : includes(lower, pattern)

\* shouldRetryGeminiError
shouldRetryGeminiError(error) ==
    \/ getErrorStatus(error) \in {408, 409, 425, 429}
    \/ getErrorStatus(error) >= 500
    \/ isLikelyTransientError(error)

\* getErrorRetryAfterMs on an error without headers: 0 when it gives undefined
getErrorRetryAfterMs(error) ==
    IF error.kind = "error" /\ error.retryAfter > 0 THEN error.retryAfter ELSE 0

\* an option the caller left out
NotGiven == [given |-> FALSE]
Given(value) == [given |-> TRUE, value |-> value]

\* DEFAULT_RETRY_OPTIONS, delays in units of 100 ms
DefaultAttempts == 3
DefaultMinDelay == 4
DefaultMaxDelay == 150
DefaultJitterPercent == 10

\* the options of the retryAsync calls of the model
RetryOptions ==
    [ attempts : {NotGiven} \cup {Given(n) : n \in 0..MaxAttempts},
      minDelayMs : {NotGiven, Given(2)},
      maxDelayMs : {NotGiven, Given(3)},
      jitter : {NotGiven, Given(50)},
      shouldRetry : {"not given", "never", "isLikelyTransientError", "shouldRetryGeminiError"},
      retryAfterMs : {"not given", "getErrorRetryAfterMs"} ]

OrElse(option, default) == IF option.given THEN option.value ELSE default

\* resolveOptions
resolveOptions(options) ==
    LET minDelayMs == Max(0, OrElse(options.minDelayMs, DefaultMinDelay))
    IN  [ attempts |-> Max(1, OrElse(options.attempts, DefaultAttempts)),
          minDelayMs |-> minDelayMs,
          maxDelayMs |-> Max(minDelayMs, OrElse(options.maxDelayMs, DefaultMaxDelay)),
          jitter |-> Max(0, IF OrElse(options.jitter, DefaultJitterPercent) < 100
                            THEN OrElse(options.jitter, DefaultJitterPercent) ELSE 100),
          shouldRetry |-> options.shouldRetry,
          retryAfterMs |-> options.retryAfterMs ]

\* a retry policy that ignores the classifier the caller gave
shouldRetryAlways(resolved, error, attempt) == TRUE

\* resolved.shouldRetry(error, attempt); `() => true` when the caller gave none
shouldRetry(resolved, error, attempt) ==
    CASE resolved.shouldRetry = "not given" -> TRUE
      [] resolved.shouldRetry = "never" -> FALSE
      [] resolved.shouldRetry = "isLikelyTransientError" -> isLikelyTransientError(error)
      [] resolved.shouldRetry = "shouldRetryGeminiError" -> shouldRetryGeminiError(error)

RECURSIVE Pow2(_)
Pow2(n) == IF n = 0 THEN 1 ELSE 2 * Pow2(n - 1)

\* the delay before jitter, without the upper clamp
ClampedDelayMsUncapped(resolved, error, attempt) ==
    LET retryAfterMs == IF resolved.retryAfterMs = "not given" THEN 0
                        ELSE getErrorRetryAfterMs(error)
    IN  Max(IF retryAfterMs > 0 THEN retryAfterMs
            ELSE resolved.minDelayMs * Pow2(attempt - 1), resolved.minDelayMs)

\* the delay before jitter
ClampedDelayMs(resolved, error, attempt) ==
    LET retryAfterMs == IF resolved.retryAfterMs = "not given" THEN 0
                        ELSE getErrorRetryAfterMs(error)
        baseDelayMs == IF retryAfterMs > 0 THEN retryAfterMs
                       ELSE resolved.minDelayMs * Pow2(attempt - 1)
        atLeast == Max(baseDelayMs, resolved.minDelayMs)
    IN  IF atLeast < resolved.maxDelayMs THEN atLeast ELSE resolved.maxDelayMs

\* withJitter: the values Math.round(delayMs * (1 + offset)) takes for the
\* offsets (Math.random() * 2 - 1) * jitter, jitter in hundredths
withJitter(delayMs, jitter) ==
    IF jitter <= 0 THEN {delayMs}
    ELSE { d \in 0..(2 * delayMs) :
             /\ d >= (delayMs * (100 - jitter) + 50) \div 100
             /\ d <= (delayMs * (100 + jitter) + 49) \div 100 }

RetryIdle == [pc |-> "idle"]

\* retryAsync up to its first `await operation()`
RetryStart(options) ==
    /\ retry.pc = "idle"
    /\ retry' = [ pc |-> "calling", options |-> options, resolved |-> resolveOptions(options),
                  attempt |-> 1, invocations |-> 0, lastError |-> UndefinedError,
                  raised |-> UndefinedError, delayMs |-> 0 ]
    /\ UNCHANGED <<agentVars, knowledgeVars, memoryVars, exceptRetry>>

\* `await operation()` resolves: retryAsync returns its result
OperationResolves ==
    /\ retry.pc = "calling"
    /\ retry' = [retry EXCEPT !.pc = "returned", !.invocations = @ + 1]
    /\ UNCHANGED <<agentVars, knowledgeVars, memoryVars, exceptRetry>>

\* `await operation()` rejects with `error`: the catch block, up to the
\* throw after the loop or up to `await sleep(delayMs)`
OperationRejects(error) ==
    /\ retry.pc = "calling"
    /\ IF \/ retry.attempt >= retry.resolved.attempts
          \/ ~shouldRetry(retry.resolved, error, retry.attempt)
       THEN retry' = [retry EXCEPT
                        !.pc = "raised", !.invocations = @ + 1, !.lastError = error,
                        !.raised = IF error.kind = "undefined" THEN FallbackError ELSE error]
       ELSE \E delayMs \in withJitter(ClampedDelayMs(retry.resolved, error, retry.attempt),
                                      retry.resolved.jitter) :
                retry' = [retry EXCEPT
                            !.pc = "sleeping", !.invocations = @ + 1, !.lastError = error,
                            !.delayMs = delayMs]
    /\ UNCHANGED <<agentVars, knowledgeVars, memoryVars, exceptRetry>>

\* the sleep is over: the next iteration of the loop
RetryWake ==
    /\ retry.pc = "sleeping"
    /\ retry' = [retry EXCEPT !.pc = "calling", !.attempt = @ + 1]
    /\ UNCHANGED <<agentVars, knowledgeVars, memoryVars, exceptRetry>>

RetryNext ==
    \/ \E options \in RetryOptions : RetryStart(options)
    \/ OperationResolves
    \/ \E error \in Failures : OperationRejects(error)
    \/ RetryWake

(***************************************************************************)
(* wrapUntrustedContent.  A text is a sequence of tokens: the brackets     *)
(* <<< and >>>, the marker names, white space and other text.              *)
(***************************************************************************)
Open == "<<<"
Close == ">>>"
MarkerNames == {"UNTRUSTED_CONTEXT", "untrusted_context"}
EndPrefix == "END_"
WhiteSpace == {" ", "\n"}

UNTRUSTED_CONTENT_START == <<Open, "UNTRUSTED_CONTEXT", Close>>
UNTRUSTED_CONTENT_END == <<Open, EndPrefix, "UNTRUSTED_CONTEXT", Close>>
UNTRUSTED_CONTENT_WARNING == <<"SECURITY NOTICE">>

ContentTokens == {Open, Close, "UNTRUSTED_CONTEXT", "untrusted_context", EndPrefix, " ", "text"}

\* \s*: the first position from i on that holds no white space
RECURSIVE SkipSpaces(_, _)
SkipSpaces(text, i) ==
    IF i <= Len(text) /\ text[i] \in WhiteSpace THEN SkipSpaces(text, i + 1) ELSE i

\* /<<<\s*UNTRUSTED_CONTEXT\s*>>>/i at position i: the position after the
\* match, 0 when there is none
StartMarkerAt(text, i) ==
    IF i > Len(text) \/ text[i] # Open THEN 0
    ELSE LET j == SkipSpaces(text, i + 1)
             k == SkipSpaces(text, j + 1)
         IN  IF j <= Len(text) /\ text[j] \in MarkerNames
                /\ k <= Len(text) /\ text[k] = Close
             THEN k + 1 ELSE 0

\* /<<<\s*END_UNTRUSTED_CONTEXT\s*>>>/i at position i
EndMarkerAt(text, i) ==
    IF i > Len(text) \/ text[i] # Open THEN 0
    ELSE LET j == SkipSpaces(text, i + 1)
             k == SkipSpaces(text, j + 2)
         IN  IF j + 1 <= Len(text) /\ text[j] = EndPrefix /\ text[j + 1] \in MarkerNames
                /\ k <= Len(text) /\ text[k] = Close
             THEN k + 1 ELSE 0

\* content.replace(/<<<\s*UNTRUSTED_CONTEXT\s*>>>/gi, "[[SANITIZED_MARKER]]")
RECURSIVE ReplaceStartMarkers(_, _)
ReplaceStartMarkers(text, i) ==
    IF i > Len(text) THEN <<>>
    ELSE IF StartMarkerAt(text, i) # 0
    THEN <<"[[SANITIZED_MARKER]]">> \o ReplaceStartMarkers(text, StartMarkerAt(text, i))
    ELSE <<text[i]>> \o ReplaceStartMarkers(text, i + 1)

\* .replace(/<<<\s*END_UNTRUSTED_CONTEXT\s*>>>/gi, "[[SANITIZED_END_MARKER]]")
RECURSIVE ReplaceEndMarkers(_, _)
ReplaceEndMarkers(text, i) ==
    IF i > Len(text) THEN <<>>
    ELSE IF EndMarkerAt(text, i) # 0
    THEN <<"[[SANITIZED_END_MARKER]]">> \o ReplaceEndMarkers(text, EndMarkerAt(text, i))
    ELSE <<text[i]>> \o ReplaceEndMarkers(text, i + 1)

\* sanitizeMarkers
sanitizeMarkers(content) == ReplaceEndMarkers(ReplaceStartMarkers(content, 1), 1)

\* Array.prototype.join("\n")
RECURSIVE JoinLines(_)
JoinLines(lines) ==
    IF Len(lines) = 0 THEN <<>>
    ELSE IF Len(lines) = 1 THEN lines[1]
    ELSE lines[1] \o <<"\n">> \o JoinLines(Tail(lines))

\* wrapUntrustedContent; an option the caller left out, or an empty string, is <<>>
wrapUntrustedContent(content, options) ==
    LET metadata == JoinLines(
            << <<"Source: ">> \o options.source >>
            \o (IF options.title # <<>> THEN << <<"Title: ">> \o options.title >> ELSE <<>>)
            \o (IF options.url # <<>> THEN << <<"URL: ">> \o options.url >> ELSE <<>>))
        warningBlock == IF options.includeWarning THEN UNTRUSTED_CONTENT_WARNING \o <<"\n", "\n">>
                        ELSE <<>>
    IN  JoinLines(<< warningBlock, UNTRUSTED_CONTENT_START, metadata, <<"---">>,
                     sanitizeMarkers(content), UNTRUSTED_CONTENT_END >>)

\* the contents and the options of the calls of the model
Contents == SeqsUpTo(ContentTokens, MaxContentLen)

WrapOption(title, url, includeWarning) ==
    [source |-> <<"github">>, title |-> title, url |-> url, includeWarning |-> includeWarning]

WrapOptions ==
    { WrapOption(<<>>, <<>>, TRUE),
      WrapOption(<<"owner/repo">>, <<"https://github.com/owner/repo">>, FALSE),
      WrapOption(UNTRUSTED_CONTENT_END, <<>>, TRUE) }

NotWrapped == [op |-> "none"]

\* a caller wraps a retrieved text
WrapUntrustedContent(content, options) ==
    /\ wrapped = NotWrapped
    /\ wrapped' = [ op |-> "wrapUntrustedContent", content |-> content, options |-> options,
                    output |-> wrapUntrustedContent(content, options) ]
    /\ UNCHANGED <<agentVars, knowledgeVars, memoryVars, exceptWrapped>>

WrapNext ==
    \E content \in Contents, options \in WrapOptions : WrapUntrustedContent(content, options)

\* no utility call has been made yet
UtilIdle ==
    /\ retry = RetryIdle
    /\ wrapped = NotWrapped
    /\ sync = NoSync
    /\ stream = NoStream
    /\ chunker = NoChunking
    /\ twin = NoTwin
    /\ chat = NoChat
    /\ connection = NoConnection

(***************************************************************************)
(* Memories: repositories-lite, LiteVectorStoreAdapter.memorySearch and    *)
(* runMemoryReflection.  A behaviour has one conversation.                 *)
(***************************************************************************)
M1 == <<"a", "b">>
M2 == <<"a", "b", "c">>

\* no memory id: undefined, or the empty string
NoId == 0

\* the similarity above which reflection merges into the nearest memory, in hundredths
MergeThreshold == 93

\* a merge test that any similarity passes
AboveMergeThresholdAlways(score) == TRUE

\* score > 0.93, on the squares (no score is negative)
AboveMergeThreshold(score) ==
    score.num * 100 * 100 > MergeThreshold * MergeThreshold * score.den

\* Math.max(0, Math.min(1, confidence))
ClampConfidence(confidence) == Max(0, IF confidence < 1 THEN confidence ELSE 1)

\* one memory of the extractor's answer
ExtractedMemory(content, shouldUpdateId) ==
    [content |-> content, confidence |-> 2, shouldUpdateId |-> shouldUpdateId]

\* the answers of llm.extractMemories: nothing, a blank memory, a new memory,
\* a memory to merge into memory 1, and two memories
Extractions ==
    { <<>>,
      <<ExtractedMemory(<<>>, NoId)>>,
      <<ExtractedMemory(M1, NoId)>>,
      <<ExtractedMemory(M2, NoId)>>,
      <<ExtractedMemory(M2, 1)>>,
      <<ExtractedMemory(M1, NoId), ExtractedMemory(M2, NoId)>> }

\* upsertMemory: the new memory map and the id of the record returned
upsertMemory(mems, input) ==
    IF /\ input.memoryId # NoId
       /\ input.memoryId \in 1..Len(mems)
       /\ mems[input.memoryId].userId = input.userId
    THEN [ memories |-> [mems EXCEPT ![input.memoryId] =
                            [@ EXCEPT !.content = input.content,
                                      !.confidence = input.confidence,
                                      !.embedding = input.embedding,
                                      !.deleted = FALSE]],
           id |-> input.memoryId ]
    ELSE [ memories |-> Append(mems,
                            [ userId |-> input.userId, content |-> input.content,
                              confidence |-> input.confidence,
                              embedding |-> input.embedding, deleted |-> FALSE ]),
           id |-> Len(mems) + 1 ]

\* deleteMemory
deleteMemory(mems, userId, memoryId) ==
    IF memoryId \notin 1..Len(mems) \/ mems[memoryId].userId # userId THEN mems
    ELSE [mems EXCEPT ![memoryId].deleted = TRUE]

\* listMemoriesWithEmbeddings: the ids of the owner's live memories
RECURSIVE SelectMemoryIds(_, _, _)
SelectMemoryIds(mems, userId, m) ==
    IF m > Len(mems) THEN <<>>
    ELSE (IF mems[m].userId = userId /\ ~mems[m].deleted THEN <<m>> ELSE <<>>)
         \o SelectMemoryIds(mems, userId, m + 1)

\* LiteVectorStoreAdapter.memorySearch with an embedding
memorySearch(mems, input) ==
    LET ids == SelectMemoryIds(mems, input.userId, 1)
        withEmbedding == SelectSeq(ids, LAMBDA m : Len(mems[m].embedding) > 0)
        rows == [ r \in 1..Len(withEmbedding) |->
                    [ id |-> withEmbedding[r],
                      content |-> mems[withEmbedding[r]].content,
                      score |-> cosineSimilarity(mems[withEmbedding[r]].embedding,
                                                 input.embedding) ] ]
    IN  Slice(SortByScore(rows), input.k)

\* one iteration of `for (const memory of extracted)` on the accumulated
\* memories, counters and collaborator calls
ReflectOne(acc, userId, memory) ==
    IF memory.content = <<>> THEN acc
    ELSE LET embedding == embed(memory.content)
             nearest == memorySearch(acc.memories,
                            [userId |-> userId, embedding |-> embedding, k |-> 1])
             memoryId == IF memory.shouldUpdateId # NoId THEN memory.shouldUpdateId
                         ELSE IF /\ Len(nearest) > 0
                                 /\ nearest[1].score.num # 0
                                 /\ AboveMergeThreshold(nearest[1].score)
                              THEN nearest[1].id
                              ELSE NoId
             upserted == upsertMemory(acc.memories,
                             [ userId |-> userId, memoryId |-> memoryId,
                               content |-> memory.content,
                               confidence |-> ClampConfidence(memory.confidence),
                               embedding |-> embedding ])
         IN  [ memories |-> upserted.memories,
               created |-> acc.created + (IF memoryId = NoId THEN 1 ELSE 0),
               updated |-> acc.updated + (IF memoryId # NoId THEN 1 ELSE 0),
               embedCalls |-> acc.embedCalls + 1,
               vectorCalls |-> acc.vectorCalls
                                 + (IF memory.shouldUpdateId = NoId THEN 1 ELSE 0) ]

RECURSIVE ReflectAll(_, _, _)
ReflectAll(acc, userId, extracted) ==
    IF Len(extracted) = 0 THEN acc
    ELSE ReflectAll(ReflectOne(acc, userId, Head(extracted)), userId, Tail(extracted))

ReflectionSkipped(mems, msgs) ==
    [ memories |-> mems, messages |-> msgs, created |-> 0, updated |-> 0,
      llmCalls |-> 0, embedCalls |-> 0, vectorCalls |-> 0 ]

\* runMemoryReflection past the learning switch: getConversationMessages,
\* listMemories, llm.extractMemories (which returns `extracted`), the loop
\* and the system message
ReflectConversation(mems, msgs, input, extracted) ==
    IF Len(msgs) = 0 THEN ReflectionSkipped(mems, msgs)
    ELSE LET out == ReflectAll([ memories |-> mems, created |-> 0, updated |-> 0,
                                 embedCalls |-> 0, vectorCalls |-> 0 ],
                               input.userId, extracted)
         IN  [ memories |-> out.memories,
               messages |-> Append(msgs,
                   [ role |-> "system",
                     content |-> <<"[Reflection] stored memories:", out.created,
                                   out.updated>> ]),
               created |-> out.created, updated |-> out.updated,
               llmCalls |-> 1, embedCalls |-> out.embedCalls,
               vectorCalls |-> out.vectorCalls ]

\* runMemoryReflection without the learning switch
runMemoryReflectionIgnoresSwitch(mems, msgs, input, extracted) ==
    ReflectConversation(mems, msgs, input, extracted)

\* runMemoryReflection
runMemoryReflection(mems, msgs, input, extracted) ==
    IF ~input.allowLearningFromConversations
    THEN ReflectionSkipped(mems, msgs)
    ELSE ReflectConversation(mems, msgs, input, extracted)

NoReflection == [op |-> "none"]

\* the reflection worker, or the chat route of the lite runtime, runs a reflection
RunMemoryReflection(userId, allow, extracted) ==
    LET input == [userId |-> userId, allowLearningFromConversations |-> allow]
        out == runMemoryReflection(memories, messages, input, extracted)
    IN  /\ Len(out.memories) <= MaxMemories
        /\ Len(out.messages) <= MaxMessages + 1
        /\ memories' = out.memories
        /\ messages' = out.messages
        /\ reflection' = [ op |-> "runMemoryReflection", input |-> input,
                           extracted |-> extracted,
                           result |-> [created |-> out.created, updated |-> out.updated],
                           llmCalls |-> out.llmCalls, embedCalls |-> out.embedCalls,
                           vectorCalls |-> out.vectorCalls ]
        /\ UNCHANGED <<agentVars, storeVars>>

\* the chat route saves a message of the conversation
SaveMessage(role) ==
    /\ Len(messages) < MaxMessages
    /\ messages' = Append(messages, [role |-> role, content |-> <<"text">>])
    /\ reflection' = NoReflection
    /\ UNCHANGED memories
    /\ UNCHANGED <<agentVars, storeVars>>

\* DELETE of a memory by an owner
DeleteMemory(userId, memoryId) ==
    /\ memoryId \in 1..Len(memories)
    /\ memories' = deleteMemory(memories, userId, memoryId)
    /\ reflection' = IF reflection.op = "listed" THEN reflection ELSE NoReflection
    /\ UNCHANGED messages
    /\ UNCHANGED <<agentVars, storeVars>>

\* runMemoryReflection up to the answer of llm.extractMemories: the
\* conversation and listMemories were read, and the extractor names for
\* update only memories it was shown
ReflectionListed(userId, extracted) ==
    LET listed == Range(SelectMemoryIds(memories, userId, 1))
    IN  /\ reflection.op # "listed"
        /\ Len(messages) \in 1..MaxMessages
        /\ \A e \in 1..Len(extracted) :
              extracted[e].shouldUpdateId \in listed \cup {NoId}
        /\ reflection' = [ op |-> "listed", listed |-> listed, extracted |-> extracted,
                           input |-> [ userId |-> userId,
                                       allowLearningFromConversations |-> TRUE ] ]
        /\ UNCHANGED <<memories, messages>>
        /\ UNCHANGED <<agentVars, storeVars>>

\* the rest of that reflection: the loop over the extracted memories on the
\* store as it is by now, and the system message
ReflectionWrites ==
    LET out == ReflectAll([ memories |-> memories, created |-> 0, updated |-> 0,
                            embedCalls |-> 0, vectorCalls |-> 0 ],
                          reflection.input.userId, reflection.extracted)
    IN  /\ reflection.op = "listed"
        /\ Len(out.memories) <= MaxMemories
        /\ memories' = out.memories
        /\ messages' = Append(messages,
               [ role |-> "system",
                 content |-> <<"[Reflection] stored memories:", out.created, out.updated>> ])
        /\ reflection' = [ op |-> "runMemoryReflection", input |-> reflection.input,
                           extracted |-> reflection.extracted,
                           result |-> [created |-> out.created, updated |-> out.updated],
                           llmCalls |-> 1, embedCalls |-> out.embedCalls,
                           vectorCalls |-> out.vectorCalls ]
        /\ UNCHANGED <<agentVars, storeVars>>

\* the chat route starts a new conversation
NewConversation ==
    /\ reflection.op # "listed"
    /\ messages # <<>>
    /\ messages' = <<>>
    /\ reflection' = NoReflection
    /\ UNCHANGED memories
    /\ UNCHANGED <<agentVars, storeVars>>

\* reflections that other requests overlap
ReflectNext ==
    \/ \E u \in Users, extracted \in Extractions : ReflectionListed(u, extracted)
    \/ ReflectionWrites
    \/ SaveMessage("user")
    \/ NewConversation
    \/ \E u \in Users, id \in 1..MaxMemories : DeleteMemory(u, id)

MemoryEmpty ==
    /\ memories = <<>>
    /\ messages = <<>>
    /\ reflection = NoReflection

MemoryNext ==
    \/ \E u \in Users, allow \in BOOLEAN, extracted \in Extractions :
          RunMemoryReflection(u, allow, extracted)
    \/ SaveMessage("user")
    \/ \E u \in Users, id \in 1..MaxMemories : DeleteMemory(u, id)

(***************************************************************************)
(* Agent tool catalog (buildAgentTools).  Args of a call are a JavaScript  *)
(* object: an ordered list of <<name, value>> properties with distinct     *)
(* names, in the order JSON.parse inserted them.                           *)
(***************************************************************************)
ToolCatalog ==
    { [name |-> "search_knowledge_base", requiresConfirmation |-> FALSE],
      [name |-> "get_document",          requiresConfirmation |-> FALSE],
      [name |-> "summarize",             requiresConfirmation |-> FALSE],
      [name |-> "draft_email",           requiresConfirmation |-> FALSE],
      [name |-> "create_task",           requiresConfirmation |-> TRUE] }

FindTool(toolName) == {t \in ToolCatalog : t.name = toolName}

TitleOnly == << <<"title", "b">> >>

ArgObjects ==
    { << <<"title", "b">> >>,
      << <<"title", "a">>, <<"notes", "n">> >>,
      << <<"notes", "n">>, <<"title", "a">> >> }

\* input.name of a JavaScript object, Null standing for undefined
Prop(args, name) ==
    IF \E i \in 1..Len(args) : args[i][1] = name
    THEN LET i == CHOOSE j \in 1..Len(args) : args[j][1] = name IN args[i][2]
    ELSE Null

\* JSON.stringify(args): the properties in insertion order
RECURSIVE StringifyProps(_)
StringifyProps(args) ==
    IF Len(args) = 0 THEN <<>>
    ELSE <<"\"", args[1][1], "\":\"", args[1][2], "\"">>
         \o (IF Len(args) > 1 THEN <<",">> ELSE <<>>)
         \o StringifyProps(Tail(args))

\* the args of a call that has none: undefined
Undefined == << <<"undefined">> >>

\* JSON.stringify(args) inside a template literal: undefined gives "undefined"
JSONStringify(args) ==
    IF args = Undefined THEN <<"undefined">>
    ELSE <<"{">> \o StringifyProps(args) \o <<"}">>

\* `${call.toolName}:${JSON.stringify(call.args)}`
ConfirmationKey(call) == <<call.toolName, ":">> \o JSONStringify(call.args)

\* a call of a plan; send_payment is a tool the catalog does not have
CreateTask(args) == [toolName |-> "create_task", args |-> args]
DraftEmail == [toolName |-> "draft_email", args |-> <<>>]
SendPayment == [toolName |-> "send_payment", args |-> <<>>]

\* plan.toolCalls as the planner returns them: no call, one call, the same
\* call twice, two different calls, and calls next to a tool that needs no
\* confirmation or that is unknown
Plans ==
    { <<>>, <<DraftEmail>>, <<SendPayment>> }
    \cup { <<CreateTask(args)>> : args \in ArgObjects }
    \cup { <<CreateTask(a1), CreateTask(a2)>> : a1 \in ArgObjects, a2 \in ArgObjects }
    \cup { <<DraftEmail, CreateTask(TitleOnly)>>, <<SendPayment, CreateTask(TitleOnly)>> }

CreateTaskKeys == {ConfirmationKey(c) : c \in [toolName : {"create_task"}, args : ArgObjects]}

\* input.confirmedActions: absent, or an array of keys
ConfirmedOptions ==
    {[defined |-> FALSE, keys |-> {}]}
    \cup {[defined |-> TRUE, keys |-> S] : S \in {T \in SUBSET CreateTaskKeys : Cardinality(T) <= MaxConfirmed}}

\* a missing confirmedActions array taken as a confirmation of everything
IsConfirmedWhenAbsent(confirmedActions, key) ==
    ~confirmedActions.defined \/ key \in confirmedActions.keys

\* the confirmation looked up by tool name instead of by key
IsConfirmedByToolName(confirmedActions, key) ==
    confirmedActions.defined /\ <<key[1]>> \in confirmedActions.keys

\* input.confirmedActions?.includes(key)
IsConfirmed(confirmedActions, key) ==
    confirmedActions.defined /\ key \in confirmedActions.keys

AwaitingConfirmation == [text |-> "Awaiting user confirmation"]

\* createTask: the record a create_task call persists for its owner
TaskOf(userId, args) ==
    [ userId |-> userId,
      title  |-> IF Prop(args, "title") = Null THEN "" ELSE Prop(args, "title"),
      notes  |-> Prop(args, "notes") ]

\* what tool.run returns (create_task returns the stored task with its id)
ToolOutput(call, userId, taskId) ==
    IF call.toolName = "create_task"
    THEN [id |-> taskId, title |-> TaskOf(userId, call.args).title,
          notes |-> TaskOf(userId, call.args).notes]
    ELSE [draft |-> "text"]

AgentIdle ==
    [ pc |-> "idle", plan |-> <<>>,
      confirmedActions |-> [defined |-> FALSE, keys |-> {}],
      results |-> <<>>, proposedActions |-> <<>>,
      turn |-> 0, tasksAtStart |-> 0, prevPending |-> {} ]

\* the keys a finished turn returned in proposedActions with the placeholder result
PendingKeys(a) ==
    { ConfirmationKey([toolName |-> a.results[i].toolName, args |-> a.results[i].input]) :
        i \in {j \in 1..Len(a.results) : a.results[j].output = AwaitingConfirmation} }

(***************************************************************************)
(* runAgent: one iteration of `for (const call of plan.toolCalls)`, on the *)
(* accumulated results, proposedActions and task store.                    *)
(***************************************************************************)
ProcessCall(call, confirmedActions, acc) ==
    LET tool == FindTool(call.toolName)
        key  == ConfirmationKey(call)
        needsConfirmation == \E t \in tool : t.requiresConfirmation
    IN  IF tool = {}
        THEN acc
        ELSE IF needsConfirmation /\ ~IsConfirmed(confirmedActions, key)
        THEN [acc EXCEPT
                !.proposedActions = Append(@, key),
                !.results = Append(@, [toolName |-> call.toolName, input |-> call.args,
                                       output |-> AwaitingConfirmation])]
        ELSE [ tasks |-> IF call.toolName = "create_task"
                         THEN Append(acc.tasks, TaskOf(AgentUser, call.args))
                         ELSE acc.tasks,
               proposedActions |-> IF needsConfirmation
                                   THEN Append(acc.proposedActions, key)
                                   ELSE acc.proposedActions,
               results |-> Append(acc.results,
                                  [toolName |-> call.toolName, input |-> call.args,
                                   output |-> ToolOutput(call, AgentUser, Len(acc.tasks) + 1)]) ]

RECURSIVE ProcessCalls(_, _, _)
ProcessCalls(toolCalls, confirmedActions, acc) ==
    IF Len(toolCalls) = 0 THEN acc
    ELSE ProcessCalls(Tail(toolCalls), confirmedActions,
                      ProcessCall(Head(toolCalls), confirmedActions, acc))

(***************************************************************************)
(* runAgent: the planner call, the tool loop, the synthesis call and the   *)
(* return of {response, toolResults, proposedActions}.                     *)
(***************************************************************************)
RunAgent(plan, confirmedActions) ==
    /\ agent.turn < MaxTurns
    /\ LET out == ProcessCalls(plan, confirmedActions,
                               [tasks |-> tasks, results |-> <<>>, proposedActions |-> <<>>])
       IN  /\ tasks' = out.tasks
           /\ UNCHANGED <<storeVars, memoryVars>>
           /\ agent' = [ pc |-> "done", plan |-> plan,
                         confirmedActions |-> confirmedActions,
                         results |-> out.results,
                         proposedActions |-> out.proposedActions,
                         turn |-> agent.turn + 1, tasksAtStart |-> Len(tasks),
                         prevPending |-> PendingKeys(agent) ]

\* the agent runs on the in-process task store; nothing else is running
AgentInit ==
    /\ tasks = <<>>
    /\ agent = AgentIdle
    /\ backend = "lite"
    /\ StoreEmpty
    /\ IngestIdle
    /\ MemoryEmpty
    /\ UtilIdle

AgentNext ==
    \E plan \in Plans, c \in ConfirmedOptions : RunAgent(plan, c)

SpecAgent == AgentInit /\ [][AgentNext]_vars

(***************************************************************************)
(* runAgent on planner output that is no well-formed plan.  A planner      *)
(* output is its text and what JSON.parse makes of it.                     *)
(***************************************************************************)
\* an entry of toolCalls that is an object; toolName Null when it has none
CallEntry(toolName, args) == [t |-> "object", toolName |-> toolName, args |-> args]

\* {"answerIntent": ..., "toolCalls": [...]}
PlanJson(items) ==
    [t |-> "object", answerIntent |-> "intent", toolCalls |-> [t |-> "array", items |-> items]]

MalformedOutputs ==
    { [text |-> "I will create a task", json |-> [t |-> "invalid"]],
      [text |-> "null", json |-> [t |-> "null"]],
      [text |-> "{\"answerIntent\":\"x\"}",
       json |-> [t |-> "object", answerIntent |-> "x", toolCalls |-> [t |-> "undefined"]]],
      [text |-> "{\"toolCalls\":\"create_task\"}",
       json |-> [t |-> "object", answerIntent |-> Null, toolCalls |-> [t |-> "string"]]],
      [text |-> "{\"toolCalls\":[null]}", json |-> PlanJson(<<[t |-> "null"]>>)],
      [text |-> "{\"toolCalls\":[\"create_task\"]}", json |-> PlanJson(<<[t |-> "string"]>>)],
      [text |-> "{\"toolCalls\":[{}]}", json |-> PlanJson(<<CallEntry(Null, Undefined)>>)],
      [text |-> "{\"toolCalls\":[{\"toolName\":\"draft_email\"}]}",
       json |-> PlanJson(<<CallEntry("draft_email", Undefined)>>)],
      [text |-> "{\"toolCalls\":[{\"toolName\":\"create_task\"}]}",
       json |-> PlanJson(<<CallEntry("create_task", Undefined)>>)],
      [text |-> "{\"toolCalls\":[{\"toolName\":\"create_task\",\"args\":{\"title\":\"b\"}},null]}",
       json |-> PlanJson(<<CallEntry("create_task", TitleOnly), [t |-> "null"]>>)] }

\* parsePlannerOutput
parsePlannerOutput(raw) ==
    IF raw.json.t = "invalid" THEN [answerIntent |-> raw.text, toolCalls |-> <<>>]
    ELSE IF raw.json.t # "object" THEN [answerIntent |-> raw.text, toolCalls |-> <<>>]
    ELSE IF raw.json.toolCalls.t # "array"
    THEN [answerIntent |-> raw.text, toolCalls |-> <<>>]
    ELSE [answerIntent |-> raw.json.answerIntent, toolCalls |-> raw.json.toolCalls.items]

\* one iteration of `for (const call of plan.toolCalls)` on an entry as
\* JSON.parse made it; acc.threw when an iteration raised a TypeError
ProcessEntry(entry, confirmedActions, acc) ==
    IF acc.threw THEN acc
    ELSE IF entry.t = "null" THEN [acc EXCEPT !.threw = TRUE]
    ELSE IF entry.t # "object" THEN acc
    ELSE IF FindTool(entry.toolName) = {} THEN acc
    ELSE LET call == [toolName |-> entry.toolName, args |-> entry.args]
             key == ConfirmationKey(call)
             needsConfirmation == \E t \in FindTool(entry.toolName) : t.requiresConfirmation
         IN  IF entry.args # Undefined
             THEN LET out == ProcessCall(call, confirmedActions,
                                 [ tasks |-> acc.tasks, results |-> acc.results,
                                   proposedActions |-> acc.proposedActions ])
                  IN  [ tasks |-> out.tasks, results |-> out.results,
                        proposedActions |-> out.proposedActions, threw |-> FALSE ]
             ELSE IF needsConfirmation /\ ~IsConfirmed(confirmedActions, key)
             THEN [acc EXCEPT
                     !.proposedActions = Append(@, key),
                     !.results = Append(@, [toolName |-> call.toolName, input |-> Undefined,
                                            output |-> AwaitingConfirmation])]
             ELSE [acc EXCEPT
                     !.proposedActions = IF needsConfirmation THEN Append(@, key) ELSE @,
                     !.threw = TRUE]

RECURSIVE ProcessEntries(_, _, _)
ProcessEntries(entries, confirmedActions, acc) ==
    IF Len(entries) = 0 THEN acc
    ELSE ProcessEntries(Tail(entries), confirmedActions,
                        ProcessEntry(Head(entries), confirmedActions, acc))

\* runAgent when the planner returned `raw`: the turn returns, or it rejects
RunAgentOnOutput(raw, confirmedActions) ==
    /\ agent.turn < MaxTurns
    /\ LET plan == parsePlannerOutput(raw)
           out == ProcessEntries(plan.toolCalls, confirmedActions,
                      [ tasks |-> tasks, results |-> <<>>, proposedActions |-> <<>>,
                        threw |-> FALSE ])
       IN  /\ tasks' = out.tasks
           /\ UNCHANGED <<storeVars, memoryVars>>
           /\ agent' = [ pc |-> IF out.threw THEN "rejected" ELSE "returned",
                         raw |-> raw, plan |-> <<>>, answerIntent |-> plan.answerIntent,
                         confirmedActions |-> confirmedActions,
                         results |-> IF out.threw THEN <<>> ELSE out.results,
                         proposedActions |-> IF out.threw THEN <<>> ELSE out.proposedActions,
                         turn |-> agent.turn + 1, tasksAtStart |-> Len(tasks),
                         prevPending |-> PendingKeys(agent) ]

PlannerNext ==
    \/ \E plan \in Plans, c \in ConfirmedOptions : RunAgent(plan, c)
    \/ \E raw \in MalformedOutputs, c \in ConfirmedOptions : RunAgentOnOutput(raw, c)

SpecPlanner == AgentInit /\ [][PlannerNext]_vars

\* C11: a turn whose planner output is no well-formed plan returns a
\* response with empty toolResults and proposedActions, runs no tool and
\* creates no task.
C11_MalformedPlanDegrades ==
    agent.pc \in {"returned", "rejected"} =>
        /\ agent.pc = "returned"
        /\ agent.results = <<>>
        /\ agent.proposedActions = <<>>
        /\ Len(tasks) = agent.tasksAtStart


(***************************************************************************)
(* Properties of the agent state machine.                                  *)
(***************************************************************************)
IsKnownTool(call) == FindTool(call.toolName) # {}

IsConfirmedCreate(call) ==
    /\ call.toolName = "create_task"
    /\ agent.confirmedActions.defined
    /\ ConfirmationKey(call) \in agent.confirmedActions.keys

IsCreateResult(result) == result.toolName = "create_task"

CreatedThisTurn == SubSeq(tasks, agent.tasksAtStart + 1, Len(tasks))

\* C1: a finished runAgent turn has run create_task exactly for the calls of
\* the plan whose key toolName:JSON(args) is an element of confirmedActions,
\* in plan order; every other create_task call has the placeholder output
\* "Awaiting user confirmation" and has created no task.
C1_OnlyConfirmedRuns ==
    agent.pc = "done" =>
        LET known == SelectSeq(agent.plan, IsKnownTool)
            confirmed == SelectSeq(agent.plan, IsConfirmedCreate)
        IN  /\ Len(agent.results) = Len(known)
            /\ \A j \in 1..Len(known) :
                  known[j].toolName = "create_task" =>
                     /\ agent.results[j].input = known[j].args
                     /\ (agent.results[j].output = AwaitingConfirmation)
                           <=> ~IsConfirmedCreate(known[j])
            /\ Len(CreatedThisTurn) = Len(confirmed)
            /\ \A i \in 1..Len(confirmed) :
                  CreatedThisTurn[i] = TaskOf(AgentUser, confirmed[i].args)

\* C1 witness: a plan with two create_task calls, one confirmed (its task
\* was created) and one not (placeholder recorded).
C1_Witness ==
    /\ agent.pc = "done"
    /\ Len(agent.results) = 2
    /\ agent.results[1].toolName = "create_task"
    /\ agent.results[2].toolName = "create_task"
    /\ agent.results[1].output # AwaitingConfirmation
    /\ agent.results[2].output = AwaitingConfirmation
    /\ Len(CreatedThisTurn) = 1

ResultKey(result) == ConfirmationKey([toolName |-> result.toolName, args |-> result.input])

\* the turn created the task of a call with key K and returned its stored record
RanWithRealResult(K) ==
    \E j \in 1..Len(agent.results) :
        /\ ResultKey(agent.results[j]) = K
        /\ agent.results[j].output # AwaitingConfirmation
        /\ agent.results[j].output.id \in (agent.tasksAtStart + 1)..Len(tasks)
        /\ tasks[agent.results[j].output.id] = TaskOf(AgentUser, agent.results[j].input)

\* C9 as stated: after a turn returned key K with the placeholder result, a
\* re-invocation for the same request with exactly K in confirmedActions
\* creates the task and returns its real result.
C9_ConfirmExecutes ==
    agent.pc = "done" =>
        \A K \in agent.prevPending :
            agent.confirmedActions = [defined |-> TRUE, keys |-> {K}]
                => RanWithRealResult(K)

PlanKeys == {ConfirmationKey(agent.plan[i]) : i \in 1..Len(agent.plan)}

\* C9 amended: after a turn returned key K with the placeholder result, a
\* re-invocation with exactly K in confirmedActions creates the task and
\* returns its real result provided the planner's plan for the re-invocation
\* again contains a call with key K.
C9_ConfirmExecutesWhenReplanned ==
    agent.pc = "done" =>
        \A K \in agent.prevPending :
            (agent.confirmedActions = [defined |-> TRUE, keys |-> {K}] /\ K \in PlanKeys)
                => RanWithRealResult(K)

\* C9 witness: the second turn confirms a key the first turn left pending
\* and the planner proposes the call again.
C9_Witness ==
    /\ agent.pc = "done"
    /\ agent.turn = 2
    /\ \E K \in agent.prevPending :
          /\ agent.confirmedActions = [defined |-> TRUE, keys |-> {K}]
          /\ K \in PlanKeys
          /\ RanWithRealResult(K)

CreateResults == SelectSeq(agent.results, IsCreateResult)

\* C10: the keys a turn returns in proposedActions are equal for two
\* create_task calls exactly when their args hold the same name/value pairs,
\* whatever the property order.
C10_KeyIsCanonical ==
    agent.pc = "done" =>
        /\ Len(agent.proposedActions) = Len(CreateResults)
        /\ \A i, j \in 1..Len(CreateResults) :
              (Range(CreateResults[i].input) = Range(CreateResults[j].input))
                 <=> (agent.proposedActions[i] = agent.proposedActions[j])

\* the positions of the results of a turn at which the call with key K ran
ExecutionsOf(a, K) ==
    { j \in 1..Len(a.results) :
        /\ a.results[j].toolName = "create_task"
        /\ ResultKey(a.results[j]) = K
        /\ a.results[j].output # AwaitingConfirmation }

\* C27: one confirmed key authorizes at most one execution: when a plan holds
\* the same confirmation-required call more than once, or the same
\* confirmedActions are sent on more than one turn, at most one task is
\* created per key.
C27_OneExecutionPerKey ==
    /\ [](agent.pc = "done" =>
             \A K \in agent.confirmedActions.keys : Cardinality(ExecutionsOf(agent, K)) <= 1)
    /\ [][(agent.pc = "done" /\ agent'.pc = "done") =>
             \A K \in agent.confirmedActions.keys \cap agent'.confirmedActions.keys :
                 ExecutionsOf(agent, K) # {} => ExecutionsOf(agent', K) = {}]_vars

(***************************************************************************)
(* Properties of the knowledge store and of retrieval.                     *)
(***************************************************************************)
SameKey(a, b) == a.userId = b.userId /\ a.source = b.source /\ a.sourceId = b.sourceId

OneRowPerKey(items) ==
    \A i, j \in 1..Len(items) : SameKey(items[i], items[j]) => i = j

\* what a createKnowledgeItem call with `input`, returning {id, changed}, did
\* to the items `before`, leaving the items `after`
CreateContract(before, after, input, id, changed) ==
    LET rows == {i \in 1..Len(before) : SameKey(before[i], input)}
    IN  /\ rows = {} =>
              /\ changed
              /\ after = Append(before, after[Len(after)])
              /\ id = Len(after)
              /\ SameKey(after[id], input)
              /\ after[id].rawText = input.rawText
              /\ after[id].metadata = input.metadata
              /\ after[id].contentHash = input.contentHash
              /\ ~after[id].deleted
        /\ rows # {} =>
              /\ id \in rows
              /\ before[id].contentHash = input.contentHash =>
                    ~changed /\ after = before
              /\ before[id].contentHash # input.contentHash =>
                    /\ changed
                    /\ Len(after) = Len(before)
                    /\ \A i \in 1..Len(before) : i # id => after[i] = before[i]
                    /\ SameKey(after[id], input)
                    /\ after[id].rawText = input.rawText
                    /\ after[id].metadata = input.metadata
                    /\ ~after[id].deleted
        /\ OneRowPerKey(after)

\* C2: a createKnowledgeItem call inserts a row and reports changed=true when
\* its key (owner, source, sourceId) has no row; leaves every field untouched
\* and reports changed=false when the stored hash equals the incoming hash;
\* overwrites text and metadata, clears the soft-delete mark and reports
\* changed=true when the stored hash differs; and there is at most one row
\* per key after any sequence of calls.
C2_CreateKnowledgeItemContract ==
    [][ lastCall'.op = "createKnowledgeItem" =>
            CreateContract(knowledgeItems, knowledgeItems', lastCall'.input,
                           lastCall'.id, lastCall'.changed) ]_vars

\* a call found a soft-deleted row of its key with another hash, overwrote it
\* and the row is live again
C2_Witness ==
    /\ lastCall.op = "createKnowledgeItem"
    /\ lastCall.found
    /\ lastCall.wasDeleted
    /\ lastCall.changed
    /\ knowledgeItems[lastCall.id].rawText = lastCall.input.rawText
    /\ ~knowledgeItems[lastCall.id].deleted

\* the chunk satisfies every equality filter on its metadata
MatchesFilters(chunk, filters) == \A f \in filters : f \in chunk.metadata

\* the chunks a search of `input` may return
Eligible(input) ==
    { c \in 1..Len(knowledgeChunks) :
        /\ knowledgeChunks[c].userId = input.userId
        /\ ~knowledgeChunks[c].deleted
        /\ ~knowledgeItems[knowledgeChunks[c].knowledgeItemId].deleted
        /\ MatchesFilters(knowledgeChunks[c], input.filters) }

Returned == {search.result[r].chunkId : r \in 1..Len(search.result)}

\* C6: similaritySearch returns at most k chunks (none for a k below one); each
\* returned chunk belongs to the owner,
\* is not soft-deleted nor under a soft-deleted item and matches every
\* filter; the results are in non-increasing similarity order; and no
\* eligible chunk left out has a strictly higher similarity than a returned one.
C6_SearchContract ==
    (search.op = "similaritySearch" /\ ~search.threw) =>
        /\ Len(search.result) <= Max(search.input.k, 0)
        /\ Returned \subseteq Eligible(search.input)
        /\ \A r \in 1..(Len(search.result) - 1) :
              ~ScoreLess(search.result[r].score, search.result[r + 1].score)
        /\ \A c \in Eligible(search.input) \ Returned : \A r \in 1..Len(search.result) :
              ~ScoreLess(search.result[r].score,
                         cosineSimilarity(knowledgeChunks[c].embedding,
                                          search.input.embedding))

\* C7: no operation invoked with owner A's id returns or modifies an item or
\* chunk that belongs to a different owner B.
C7_OwnerIsolation ==
    [][ lastCall'.op # "none" =>
          /\ \A i \in 1..Len(knowledgeItems) :
                knowledgeItems[i].userId # lastCall'.userId =>
                    knowledgeItems'[i] = knowledgeItems[i]
          /\ \A c \in 1..Len(knowledgeChunks) :
                knowledgeChunks[c].userId # lastCall'.userId =>
                    knowledgeChunks'[c] = knowledgeChunks[c]
          /\ search'.op = "similaritySearch" =>
                \A r \in 1..Len(search'.result) :
                    knowledgeChunks[search'.result[r].chunkId].userId = lastCall'.userId
      ]_vars

(***************************************************************************)
(* Properties of ingestion.                                                *)
(***************************************************************************)
\* C3: the second delivery of an ingestion job, document or file, reports no
\* change, makes no embedding call, writes no chunk and leaves the items and
\* chunks exactly as the first delivery left them.
C3_SecondDeliveryIsNoOp ==
    (lastDelivery.op # "none" /\ lastDelivery.redelivery) =>
        /\ lastDelivery.chunks = 0
        /\ lastDelivery.embedCalls = 0
        /\ lastDelivery.chunkWrites = 0
        /\ lastDelivery.same

\* C4: once the owner has deleted an item (or disconnected its source), no
\* search of the owner returns a chunk of it, whatever ingestion jobs of
\* unchanged content are delivered for it afterwards.
C4_DeletedStaysOutOfRetrieval ==
    search.op = "similaritySearch" =>
        \A r \in 1..Len(search.result) :
            search.result[r].knowledgeItemId \notin {t.id : t \in tomb}

\* C5: in every reachable state a soft-deleted item has no live chunk and a
\* live item has no soft-deleted chunk.
C5_NeverHalfDeleted ==
    \A c \in 1..Len(knowledgeChunks) :
        knowledgeChunks[c].knowledgeItemId \in 1..Len(knowledgeItems) =>
            knowledgeChunks[c].deleted
                = knowledgeItems[knowledgeChunks[c].knowledgeItemId].deleted

(***************************************************************************)
(* The specifications of the store: its operations called directly, and    *)
(* the ingestion service with its routes and workers; then the whole.      *)
(***************************************************************************)
StoreInit ==
    /\ tasks = <<>>
    /\ agent = AgentIdle
    /\ backend \in Backends
    /\ StoreEmpty
    /\ IngestIdle
    /\ MemoryEmpty
    /\ UtilIdle

SpecItems == StoreInit /\ [][ItemsNext]_vars

SpecApi == StoreInit /\ [][ApiNext]_vars

\* the live chunks of knowledge item `id`
LiveChunksOf(id) ==
    {c \in 1..Len(knowledgeChunks) :
        knowledgeChunks[c].knowledgeItemId = id /\ ~knowledgeChunks[c].deleted}

\* the item an ingestion job writes
ItemOfJob(job) ==
    IF job.kind = "file" THEN {job.knowledgeItemId}
    ELSE {i \in 1..Len(knowledgeItems) :
             /\ knowledgeItems[i].userId = job.input.userId
             /\ knowledgeItems[i].source = job.input.source
             /\ knowledgeItems[i].sourceId = job.input.sourceId}

\* C24: when an ingestion failed after the item was upserted and before any
\* chunk was written (the embedding call raised) and the same job is
\* delivered again, the retry chunks and embeds the text: once it has
\* returned, the item has chunks.
C24_RetryAfterFailureWritesChunks ==
    (lastDelivery.op # "none" /\ lastDelivery.retry /\ lastDelivery.ok) =>
        /\ lastDelivery.embedCalls = 1
        /\ \A i \in ItemOfJob(lastDelivery.job) : LiveChunksOf(i) # {}

\* C26: when a document is ingested again with a changed text that yields n
\* chunks, once the ingestion has returned the item's live chunks are exactly
\* the chunks 0..n-1 of the new text: no chunk of the earlier text with an
\* index of n or more is still live.
C26_NoStaleChunkAfterReingest ==
    ( /\ lastDelivery.op = "ingestNormalizedDocument"
      /\ lastDelivery.ok
      /\ lastDelivery.chunks > 0 ) =>
        LET input == lastDelivery.job.input
            chunked == chunkText(input.rawText, input.metadata,
                                 DocChunkSizeTokens, DocOverlapTokens)
        IN  \A i \in ItemOfJob(lastDelivery.job) :
                /\ {knowledgeChunks[c].chunkIndex : c \in LiveChunksOf(i)}
                      = 0..(lastDelivery.chunks - 1)
                /\ \A c \in LiveChunksOf(i) :
                      /\ knowledgeChunks[c].chunkIndex < Len(chunked)
                      /\ knowledgeChunks[c].text
                            = chunked[knowledgeChunks[c].chunkIndex + 1].text

SpecRace == StoreInit /\ [][RaceNext]_vars

\* the texts of the chunks of the document whose hash is `contentHash`
ChunkTextsOfHash(contentHash) ==
    UNION { {chunked[c].text : c \in 1..Len(chunked)} :
            chunked \in { chunkText(doc.rawText, doc.metadata,
                                    DocChunkSizeTokens, DocOverlapTokens) :
                          doc \in {d \in Documents : sha256Hex(d.rawText) = contentHash} } }

\* C25: when two ingestNormalizedDocument runs for the same (owner, source,
\* sourceId) with different texts interleave, once both have finished every
\* live chunk of the item derives from the text whose hash is the item's
\* stored content hash.
C25_ChunksMatchStoredHash ==
    [][ ( /\ lastDelivery.op = "ingestNormalizedDocument"
          /\ lastDelivery.ok
          /\ lastDelivery.chunks > 0
          /\ \E q \in ProcIds :
                /\ procs[q].pc = "embedding"
                /\ procs[q].job.input.rawText # lastDelivery.job.input.rawText
                /\ procs'[q].pc = "idle"
          /\ lastDelivery'.op = "ingestNormalizedDocument"
          /\ lastDelivery'.ok
          /\ \A p \in ProcIds : procs'[p].pc = "idle" ) =>
            \A i \in 1..Len(knowledgeItems') :
                \A c \in 1..Len(knowledgeChunks') :
                    ( /\ knowledgeChunks'[c].knowledgeItemId = i
                      /\ ~knowledgeChunks'[c].deleted ) =>
                        knowledgeChunks'[c].text
                            \in ChunkTextsOfHash(knowledgeItems'[i].contentHash)
      ]_vars

SpecIngest == StoreInit /\ [][IngestNext]_vars

\* C8: a reflection run with allowLearningFromConversations false returns
\* created 0 and updated 0, calls neither the language model, the embedder
\* nor the vector store, and creates or updates no memory.
C8_DisabledReflectionDoesNothing ==
    [][(/\ reflection'.op = "runMemoryReflection"
        /\ ~reflection'.input.allowLearningFromConversations)
       => /\ reflection'.result = [created |-> 0, updated |-> 0]
          /\ reflection'.llmCalls = 0
          /\ reflection'.embedCalls = 0
          /\ reflection'.vectorCalls = 0
          /\ memories' = memories]_vars

\* a disabled reflection ran on a conversation with messages, for an owner
\* who has a live memory, when the extractor would have returned a memory
C8_Witness ==
    /\ reflection.op = "runMemoryReflection"
    /\ ~reflection.input.allowLearningFromConversations
    /\ Len(messages) > 0
    /\ Len(reflection.extracted) > 0
    /\ reflection.extracted[1].content # <<>>
    /\ \E m \in 1..Len(memories) :
          memories[m].userId = reflection.input.userId /\ ~memories[m].deleted

SpecReflect == AgentInit /\ [][ReflectNext]_vars

\* C28: a soft-deleted memory is never made live again by a reflection run,
\* a run that read the memory list before the deletion and writes after it
\* included.
C28_ReflectionNeverRevives ==
    [][(reflection.op = "listed" /\ reflection'.op = "runMemoryReflection") =>
          \A m \in 1..Len(memories) : memories[m].deleted => memories'[m].deleted]_vars

SpecMemory == AgentInit /\ [][MemoryNext]_vars

\* the owner's live memories before a reflection, and how similar each is to a content
LiveMemoriesOf(userId) ==
    {m \in 1..Len(memories) : memories[m].userId = userId /\ ~memories[m].deleted}

SimilarityTo(m, content) == cosineSimilarity(memories[m].embedding, embed(content))

MostSimilarTo(userId, content) ==
    { m \in LiveMemoriesOf(userId) :
        \A n \in LiveMemoriesOf(userId) :
            ~ScoreLess(SimilarityTo(m, content), SimilarityTo(n, content)) }

\* similarity > 0.93, on the squares
ExceedsMergeSimilarity(score) == score.num * 10000 > 8649 * score.den

\* a reflection that ran its loop on candidates that name no memory to update
ReflectedCandidates ==
    /\ reflection'.op = "runMemoryReflection"
    /\ reflection'.input.allowLearningFromConversations
    /\ Len(messages) > 0
    /\ \A e \in 1..Len(reflection'.extracted) : reflection'.extracted[e].shouldUpdateId = NoId

\* C16: in runMemoryReflection, a candidate (of non-empty content) without
\* shouldUpdateId updates the owner's most similar live memory when that
\* similarity is above 0.93: the number of memories is unchanged and the
\* result counts one update.  Otherwise exactly one new memory is inserted
\* and the result counts one creation.  Over several candidates the counts
\* add up: every candidate is counted once and the store grows by `created`.
C16_MergeAboveThresholdElseInsert ==
    [][ReflectedCandidates =>
          LET extracted == reflection'.extracted
              userId == reflection'.input.userId
              processed == {e \in 1..Len(extracted) : extracted[e].content # <<>>}
          IN  /\ reflection'.result.created + reflection'.result.updated
                    = Cardinality(processed)
              /\ Len(memories') = Len(memories) + reflection'.result.created
              /\ (Len(extracted) = 1 /\ processed = {1}) =>
                   LET content == extracted[1].content
                       nearest == MostSimilarTo(userId, content)
                   IN  IF \E m \in nearest : ExceedsMergeSimilarity(SimilarityTo(m, content))
                       THEN /\ reflection'.result = [created |-> 0, updated |-> 1]
                            /\ Len(memories') = Len(memories)
                            /\ \E m \in nearest :
                                  /\ memories'[m].content = content
                                  /\ \A n \in 1..Len(memories) \ {m} :
                                        memories'[n] = memories[n]
                       ELSE /\ reflection'.result = [created |-> 1, updated |-> 0]
                            /\ Len(memories') = Len(memories) + 1
                            /\ memories'[Len(memories')].content = content
                            /\ memories'[Len(memories')].userId = userId
                            /\ ~memories'[Len(memories')].deleted
                            /\ \A n \in 1..Len(memories) : memories'[n] = memories[n]
       ]_vars

\* a reflection merged its one candidate into the live memory of the same
\* content, while the owner also has a memory of another content
C16_Witness ==
    /\ reflection.op = "runMemoryReflection"
    /\ reflection.input.allowLearningFromConversations
    /\ reflection.result = [created |-> 0, updated |-> 1]
    /\ Len(reflection.extracted) = 1
    /\ reflection.extracted[1].shouldUpdateId = NoId
    /\ Len(memories) = 2
    /\ \A m \in 1..2 : memories[m].userId = reflection.input.userId /\ ~memories[m].deleted
    /\ memories[1].content # memories[2].content

SpecStream == AgentInit /\ [][StreamNext]_vars

\* the non-empty deltas of a generation, in order
RECURSIVE Tokens(_)
Tokens(parts) ==
    IF Len(parts) = 0 THEN <<>>
    ELSE (IF Head(parts) = "" THEN <<>> ELSE <<Head(parts)>>) \o Tokens(Tail(parts))

\* the assistant messages saved since the request's own message
AssistantMessages ==
    {m \in (stream.request + 1)..Len(messages) : messages[m].role = "assistant"}

C18_OneTerminalEvent ==
    stream.pc # "idle" =>
        LET events == stream.events
            terminal == {e \in 1..Len(events) : events[e].event \in {"done", "error"}}
            tokenEvents == SelectSeq(events, LAMBDA ev : ev.event = "token")
            generated == Tokens(stream.parts)
        IN  /\ Len(tokenEvents) <= Len(generated)
            /\ \A t \in 1..Len(tokenEvents) : tokenEvents[t].token = generated[t]
            /\ Cardinality(terminal) <= 1
            /\ \A e \in terminal : e = Len(events)
            /\ \A e \in terminal :
                  events[e].event = "done" =>
                      events[e].answer = generated /\ stream.pc \in {"reflecting", "closed"}
            /\ (stream.pc \in {"closed", "crashed"} /\ ~stream.cancelled)
                  => Cardinality(terminal) = 1

\* a chunkText call runs its loop to the end
SpecChunker == AgentInit /\ [][ChunkerNext]_vars /\ WF_vars(ChunkIteration)

\* C19: chunkText terminates for every text, window size and overlap, an
\* overlap at or above the window size included: the window start strictly
\* increases on every iteration that goes on, no emitted chunk is empty, and
\* every call returns.
C19_ChunkTextTerminates ==
    /\ [][(chunker.pc = "loop" /\ chunker'.pc = "loop") =>
             chunker'.start > chunker.start]_vars
    /\ [](chunker.pc # "idle" =>
             \A c \in 1..Len(chunker.chunks) : Len(chunker.chunks[c].text) > 0)
    /\ [](chunker.pc = "returned" =>
             chunker.chunks = chunkText(chunker.words, {}, chunker.chunkSizeTokens,
                                        chunker.overlapTokens))
    /\ (chunker.pc = "loop" ~> chunker.pc = "returned")

\* a call whose overlap is at least its window size went through several
\* windows and returned
C19_Witness ==
    /\ chunker.pc = "returned"
    /\ chunker.chunkSizeTokens > 0
    /\ chunker.overlapTokens >= chunker.chunkSizeTokens
    /\ Len(chunker.chunks) >= 3

\* C23: every chunk is the shortest run of consecutive words from its window
\* start whose estimated token count, ceil(wordCount * 1.3), reaches
\* chunkSizeTokens, or else the rest of the section.
C23_ChunkIsShortestRunReachingBudget ==
    chunker.pc # "idle" =>
        \A c \in 1..Len(chunker.chunks) :
            LET text == chunker.chunks[c].text
                reaches(n) == (13 * n + 9) \div 10 >= chunker.chunkSizeTokens
            IN  \/ reaches(Len(text)) /\ ~reaches(Len(text) - 1)
                \/ c = Len(chunker.chunks) /\ chunker.pc = "returned" /\ ~reaches(Len(text))

SpecTwin == AgentInit /\ [][TwinNext]_vars

\* C20: for the same sequence of createKnowledgeItem, upsert and soft-delete
\* calls the lite store and the PostgreSQL store report the same `changed`
\* (and the same id), and for the same query on them both vector backends
\* return the same results in the same order.
C20_BackendsAgree ==
    twin.last.op # "none" => twin.last.lite = twin.last.pg

\* the duration retryAfter(error) yields for the failure a sleeping call is
\* backing off from (0: none), and the exponential backoff of its attempt
RetryAfterOfSleep ==
    IF /\ retry.resolved.retryAfterMs = "getErrorRetryAfterMs"
       /\ retry.lastError.kind = "error"
       /\ retry.lastError.retryAfter > 0
    THEN retry.lastError.retryAfter ELSE 0

BackoffOfSleep == retry.resolved.minDelayMs * 2^(retry.attempt - 1)

ClampToDelays(delay) ==
    IF delay < retry.resolved.minDelayMs THEN retry.resolved.minDelayMs
    ELSE IF delay > retry.resolved.maxDelayMs THEN retry.resolved.maxDelayMs
    ELSE delay

\* the slept delay is within the jitter fraction (in hundredths) of `delay`,
\* up to the rounding to a whole unit of time, and not negative
WithinJitterOf(delay) ==
    /\ retry.delayMs >= 0
    /\ 100 * retry.delayMs <= (100 + retry.resolved.jitter) * delay + 50
    /\ 100 * retry.delayMs >= (100 - retry.resolved.jitter) * delay - 50

\* C21 as stated: before a retry the delay before jitter is retryAfter(error)
\* when that is positive, and otherwise minDelay * 2^(attempt-1) clamped to
\* [minDelay, maxDelay]; the slept delay is within the jitter fraction of
\* that value and never negative.
C21_DelayIsRetryAfterOrBackoff ==
    retry.pc = "sleeping" =>
        WithinJitterOf(IF RetryAfterOfSleep > 0 THEN RetryAfterOfSleep
                       ELSE ClampToDelays(BackoffOfSleep))

\* C21, amended: the delay before jitter is retryAfter(error) when that is
\* positive and otherwise minDelay * 2^(attempt-1), in both cases clamped to
\* [minDelay, maxDelay]; the slept delay is within the jitter fraction of
\* that value and never negative.
C21_DelayIsClampedRetryAfterOrBackoff ==
    retry.pc = "sleeping" =>
        WithinJitterOf(ClampToDelays(IF RetryAfterOfSleep > 0 THEN RetryAfterOfSleep
                                     ELSE BackoffOfSleep))

\* a call sleeps before its third invocation, its backoff above maxDelay
C21_Witness ==
    /\ retry.pc = "sleeping"
    /\ retry.attempt = 2
    /\ RetryAfterOfSleep = 0
    /\ BackoffOfSleep > retry.resolved.maxDelayMs
    /\ retry.resolved.jitter > 0
    /\ retry.delayMs # retry.resolved.maxDelayMs

SpecChat == StoreInit /\ [][ChatNext]_vars

\* C22: after a chat turn, memory reflection is triggered if and only if the
\* conversation's total number of messages is a multiple of 10, whatever the
\* length of the conversation.
C22_ReflectionEveryTenMessages ==
    chat.turns > 0 => (chat.triggered <=> chat.seen % 10 = 0)

\* C30: in a conversation with learning enabled that grows by a user and an
\* assistant message per turn, every completed reflection adding its system
\* message, reflection is triggered again within every further 10 messages.
\* (Read generously: the turn in which the tenth message falls may finish,
\* and the reflection's own message is not counted against it.)
C30_ReflectionRecurs ==
    (chat.learning /\ chat.total >= 10) => chat.sinceTrigger <= 10 + 2

SpecDisconnect == StoreInit /\ [][DisconnectNext]_vars

\* C29: once disconnectConnection has returned and as long as no new
\* connection is created, the owner has no live knowledge item of that
\* source, a sync that was in flight at the disconnect notwithstanding.
C29_NoLiveItemAfterDisconnect ==
    ~connection.exists =>
        \A i \in 1..Len(knowledgeItems) :
            (knowledgeItems[i].userId = IngestUser /\ knowledgeItems[i].source = "github")
                => knowledgeItems[i].deleted

SpecSync == StoreInit /\ [][SyncNext]_vars

\* C15: when syncConnection has completed, every document with a non-empty
\* text that the connector returned has an item with at least one live chunk
\* that its owner's retrieval reads.
C15_SyncedDocumentHasChunks ==
    sync.pc = "completed" =>
        \A d \in 1..Len(sync.documents) :
            LET doc == sync.documents[d]
            IN  doc.rawText # <<>> =>
                  \E c \in Range(listKnowledgeChunksForUser(knowledgeItems, knowledgeChunks,
                                                            doc.userId)) :
                     /\ knowledgeChunks[c].knowledgeItemId \in 1..Len(knowledgeItems)
                     /\ knowledgeItems[knowledgeChunks[c].knowledgeItemId].source = doc.source
                     /\ knowledgeItems[knowledgeChunks[c].knowledgeItemId].sourceId = doc.sourceId

Init == StoreInit
SpecWrap == AgentInit /\ [][WrapNext]_vars

\* the positions of `text` where `marker` stands, token for token
Occurrences(text, marker) ==
    { i \in 1..Len(text) :
        /\ i + Len(marker) - 1 <= Len(text)
        /\ \A j \in 1..Len(marker) : text[i + j - 1] = marker[j] }

\* C14: the output of wrapUntrustedContent holds exactly one start sentinel
\* and exactly one end sentinel, the start before the end, and nothing else
\* in it reads as a sentinel: no other <<< name >>> with white space or
\* another letter case.
C14_ExactlyOneBoundary ==
    wrapped.op = "wrapUntrustedContent" =>
        LET out == wrapped.output
            starts == Occurrences(out, UNTRUSTED_CONTENT_START)
            ends == Occurrences(out, UNTRUSTED_CONTENT_END)
        IN  /\ Cardinality(starts) = 1
            /\ Cardinality(ends) = 1
            /\ \A a \in starts, b \in ends : a < b
            /\ {i \in 1..Len(out) : StartMarkerAt(out, i) # 0} = starts
            /\ {i \in 1..Len(out) : EndMarkerAt(out, i) # 0} = ends

SpecRetry == AgentInit /\ [][RetryNext]_vars

\* the loop of a retryAsync call: how often it invokes and when it stops
RetryLoopContract ==
    retry.pc # "idle" =>
        /\ retry.invocations <= retry.resolved.attempts
        /\ retry.pc \in {"returned", "raised"} => retry.invocations >= 1
        /\ retry.pc = "sleeping" =>
              /\ retry.attempt < retry.resolved.attempts
              /\ shouldRetry(retry.resolved, retry.lastError, retry.attempt)
        /\ retry.pc = "raised" =>
              \/ retry.attempt >= retry.resolved.attempts
              \/ ~shouldRetry(retry.resolved, retry.lastError, retry.attempt)
        /\ (retry.pc = "raised" /\ retry.resolved.shouldRetry = "never") =>
              retry.invocations = 1

\* a returned call invokes no more
ReturnedIsFinal == [][retry.pc = "returned" => retry' = retry]_vars

\* C12 as stated: retryAsync invokes the operation at least once and at
\* most `attempts` times (the resolved count, at least 1); after a failed
\* invocation it invokes again only if attempts remain and shouldRetry is
\* true, and otherwise raises the error of the last invocation; with a
\* classifier that is always false it invokes once and raises that error.
C12_RetryContract ==
    /\ RetryLoopContract
    /\ retry.pc = "raised" => retry.raised = retry.lastError

\* C12 amended: as C12, but what is raised is the error of the last
\* invocation unless that invocation rejected with null or undefined, and
\* then it is a new Error("Retry failed without a captured error").
C12_RetryContractCapturedError ==
    /\ RetryLoopContract
    /\ retry.pc = "raised" =>
          retry.raised = IF retry.lastError.kind = "undefined" THEN FallbackError
                         ELSE retry.lastError

\* C12 witness: with a classifier that is always false and three attempts
\* allowed, the call raised the error of its only invocation.
C12_Witness ==
    /\ retry.pc = "raised"
    /\ retry.resolved.shouldRetry = "never"
    /\ retry.resolved.attempts = 3
    /\ retry.invocations = 1
    /\ retry.lastError.kind = "error"
    /\ retry.raised = retry.lastError

\* transient as the claim has it
IsTransient(error) ==
    \/ getErrorStatus(error) \in {408, 409, 425, 429}
    \/ getErrorStatus(error) >= 500
    \/ error.kind = "error" /\ \E pattern \in TransientPatterns :
                                   includes(toLowerCase(error.message), pattern)

\* C13: under the default retry policy (the caller gave no shouldRetry, or
\* gave the default classifier isLikelyTransientError) a failed invocation
\* is followed by another one only when its error is transient: status
\* 408, 409, 425, 429 or at least 500, or a message matching a transient
\* pattern; any other error is raised after that invocation.
C13_DefaultPolicyRetriesTransientOnly ==
    (/\ retry.pc = "sleeping"
     /\ retry.resolved.shouldRetry \in {"not given", "isLikelyTransientError"}) =>
        IsTransient(retry.lastError)

Next == AgentNext \/ RetryNext \/ WrapNext \/ SyncNext \/ StreamNext \/ ChunkerNext \/ TwinNext \/ ChatNext \/ RaceNext \/ ReflectNext \/ DisconnectNext \/ PlannerNext \/ ItemsNext \/ ApiNext \/ IngestNext \/ MemoryNext
Spec == Init /\ [][Next]_vars

====
